---------------------------- MODULE Spec2Model ----------------------------
(***************************************************************************)
(* Model of the image normalisation core of mockup-manager                 *)
(* (src/src/lib/imageProcessing.js): the contain placement, the square     *)
(* compositor, the dominant border colour sampler and the connected        *)
(* background remover.                                                     *)
(*                                                                         *)
(* JavaScript numbers are IEEE-754 binary64.  The placement arithmetic is  *)
(* modelled bit-exactly: a number is a sign, a 53-bit significand (a       *)
(* sequence of 16-bit limbs, least significant first) and a binary         *)
(* exponent, and every operation rounds to nearest, ties to even.          *)
(* Exponent overflow and subnormals do not arise for the operand ranges    *)
(* explored.                                                               *)
(***************************************************************************)
EXTENDS Integers, Sequences, FiniteSets, TLC

VARIABLES
  args,       \* arguments of the last computeContainPlacement call, or NoCall
  placement,  \* what that call produced: a placement or a thrown error
  rin,        \* renderCanvasToSquare: its sourceCanvas and options, or NoCall
  rloc,       \* renderCanvasToSquare: its locals and how far it has got
  rout,       \* renderCanvasToSquare: what it returned or threw
  rargs,      \* removeConnectedBackground: its color and tolerance arguments
  rcanvas,    \* the canvas removeConnectedBackground works on; in a render,
              \* outputCanvas
  pixels,     \* removeConnectedBackground: imageData.data, one <<r,g,b,a>> per index
  visited,    \* removeConnectedBackground: the visited array
  queue,      \* removeConnectedBackground: the queue array
  pointer,    \* removeConnectedBackground: the read position in queue
  rpc,        \* removeConnectedBackground: "idle", "loop" or "done"
  runs,       \* how many calls of removeConnectedBackground have completed
  original,   \* the canvas handed to the first call
  afterFirst, \* the canvas as the first call left it
  dcanvas,    \* detectDominantBorderColor: its canvas argument, or NoCall
  dsamples,   \* detectDominantBorderColor: the (x, y) handed to addPixel, in order
  dbins,      \* detectDominantBorderColor: the bins Map, in insertion order
  dturn,      \* detectDominantBorderColor: how many of them addPixel has seen
  dresult,    \* detectDominantBorderColor: what it returned
  xin,        \* extractPsdLayersToSquarePng: the file and options of the call
  xlayers,    \* extractPsdLayersToSquarePng: layers, from collectPsdLayers
  xindex,     \* extractPsdLayersToSquarePng: index of the loop
  xresults,   \* extractPsdLayersToSquarePng: results so far
  xout,       \* extractPsdLayersToSquarePng: what the promise settled with
  items,      \* App: itemsRef.current, the list the items state is set to
  app,        \* App: processing, importingAttachments, overwriteDuplicates,
              \* extractPsdLayers and progress; what is only shown
              \* (selectedId, globalMessage, trelloError) is left out
  run,        \* App: the locals of the runProcessing call under way, or NoCall
  tcall,      \* fetchAttachmentBinary: the attachment url and the credentials
  tsent,      \* fetchAttachmentBinary: the requests it has sent, in order
  tout        \* fetchAttachmentBinary: what it returned

placementVars == <<args, placement>>
removeVars == <<rargs, rcanvas, pixels, visited, queue, pointer, rpc, runs,
                original, afterFirst>>
renderVars == <<rin, rloc, rout>>
detectVars == <<dcanvas, dsamples, dbins, dturn, dresult>>
extractVars == <<xin, xlayers, xindex, xresults, xout>>
appVars == <<items, app, run>>
trelloVars == <<tcall, tsent, tout>>
shellVars == <<appVars, trelloVars>>
vars == <<placementVars, renderVars, removeVars, detectVars, extractVars, shellVars>>

(***************************** bounds **************************************)
MaxSrc == 12      \* source widths and heights explored: -1 .. MaxSrc
MaxSize == 3      \* target sizes explored: -1 .. MaxSize, and TARGET_SIZE
MaxOut == 4       \* largest output square whose pixels are computed
MaxSourceDim == 3 \* widest and tallest source canvas rendered (from 0)
MaxSourceArea == 4 \* most pixels of a source canvas rendered
MaxDim == 3       \* widest and tallest canvas handed to the remover
MaxArea == 9      \* most pixels of a canvas handed to the remover

TARGET_SIZE == 800
AppSize == 800     \* the size App.jsx's processingOptions passes

NoCall == [kind |-> "none"]

\* a message shown: its text, and the number the text is written around
Line(text, count) == [text |-> text, count |-> count]
NoLine == Line("", 0)

Max2(a, b) == IF a >= b THEN a ELSE b
Min2(a, b) == IF a <= b THEN a ELSE b

(******************* natural numbers as limb sequences *********************)
\* A natural number is the sequence of its digits in base LimbBase, least
\* significant first, without leading zeros (0 is the empty sequence).
LimbBits == 16
LimbBase == 65536
Pow2(r) ==
  <<1, 2, 4, 8, 16, 32, 64, 128, 256, 512, 1024, 2048, 4096, 8192, 16384,
    32768>>[r + 1]

RECURSIVE NatToLimbs(_)
NatToLimbs(n) ==
  IF n = 0 THEN <<>> ELSE <<n % LimbBase>> \o NatToLimbs(n \div LimbBase)

RECURSIVE ZeroLimbs(_)
ZeroLimbs(n) == IF n <= 0 THEN <<>> ELSE <<0>> \o ZeroLimbs(n - 1)

RECURSIVE Strip(_)
Strip(b) ==
  IF b = <<>> THEN <<>>
  ELSE IF b[Len(b)] = 0 THEN Strip(SubSeq(b, 1, Len(b) - 1)) ELSE b

\* b * k + carry for 0 <= k <= 32768
RECURSIVE MulSmall(_, _, _)
MulSmall(b, k, carry) ==
  IF b = <<>> THEN NatToLimbs(carry)
  ELSE LET t == (b[1] * k) + carry
       IN  <<t % LimbBase>> \o MulSmall(Tail(b), k, t \div LimbBase)

\* limbs 1..i of the quotient of b by k, 0 < k <= 32768, and the remainder
RECURSIVE DivSmallRec(_, _, _, _)
DivSmallRec(b, i, k, rem) ==
  IF i = 0 THEN [q |-> <<>>, r |-> rem]
  ELSE LET t    == (rem * LimbBase) + b[i]
           rest == DivSmallRec(b, i - 1, k, t % k)
       IN  [q |-> Append(rest.q, t \div k), r |-> rest.r]

StripQuotient(d) == [q |-> Strip(d.q), r |-> d.r]

DivSmall(b, k) == StripQuotient(DivSmallRec(b, Len(b), k, 0))

RECURSIVE AddLimbs(_, _, _)
AddLimbs(a, b, carry) ==
  IF a = <<>> /\ b = <<>> THEN NatToLimbs(carry)
  ELSE LET t == (IF a = <<>> THEN 0 ELSE a[1]) + (IF b = <<>> THEN 0 ELSE b[1])
                  + carry
       IN  <<t % LimbBase>> \o AddLimbs(IF a = <<>> THEN <<>> ELSE Tail(a),
                                        IF b = <<>> THEN <<>> ELSE Tail(b),
                                        t \div LimbBase)

\* a - b for a >= b, digit by digit with a borrow
RECURSIVE SubLimbsRaw(_, _, _)
SubLimbsRaw(a, b, borrow) ==
  IF a = <<>> THEN <<>>
  ELSE LET bb == IF b = <<>> THEN 0 ELSE b[1]
           t  == a[1] - bb - borrow
           tb == IF b = <<>> THEN <<>> ELSE Tail(b)
       IN  IF t >= 0 THEN <<t>> \o SubLimbsRaw(Tail(a), tb, 0)
           ELSE <<t + LimbBase>> \o SubLimbsRaw(Tail(a), tb, 1)

SubLimbs(a, b) == Strip(SubLimbsRaw(a, b, 0))

\* -1, 0, 1 as a < b, a = b, a > b
RECURSIVE CmpSameLen(_, _, _)
CmpSameLen(a, b, i) ==
  IF i = 0 THEN 0
  ELSE IF a[i] > b[i] THEN 1
  ELSE IF a[i] < b[i] THEN -1
  ELSE CmpSameLen(a, b, i - 1)

CmpLimbs(a, b) ==
  IF Len(a) > Len(b) THEN 1
  ELSE IF Len(a) < Len(b) THEN -1
  ELSE CmpSameLen(a, b, Len(a))

\* the number of significant bits
BitLen(b) ==
  IF b = <<>> THEN 0
  ELSE (LimbBits * (Len(b) - 1))
         + Cardinality({r \in 0..(LimbBits - 1) : Pow2(r) <= b[Len(b)]})

ShiftLeftBits(b, n) ==
  IF b = <<>> THEN <<>>
  ELSE ZeroLimbs(n \div LimbBits) \o MulSmall(b, Pow2(n % LimbBits), 0)

\* b shifted right by n bits, and whether a 1 bit was shifted out
ShiftedOut(b, drop, d) ==
  [q |-> d.q, sticky |-> d.r # 0 \/ (\E i \in 1..drop : b[i] # 0)]

ShiftRightBits(b, n) ==
  IF n \div LimbBits >= Len(b) THEN [q |-> <<>>, sticky |-> b # <<>>]
  ELSE ShiftedOut(b, n \div LimbBits,
                  DivSmall(SubSeq(b, (n \div LimbBits) + 1, Len(b)),
                           Pow2(n % LimbBits)))

(************************* binary64 arithmetic *****************************)
\* A number is [neg, m, e]: its value is m * 2^e, negated if neg, with m of
\* exactly 53 significant bits; zero has m = <<>>.
FZero == [neg |-> FALSE, m |-> <<>>, e |-> 0]

\* Rounding to nearest, ties to even, of the exact value (m + f) * 2^e,
\* 0 <= f < 1 and f > 0 iff sticky.  FRound finds the length L of m;
\* FRoundLen drops the L - 53 low bits but one, s1; FRoundGuard takes the
\* guard bit off s1 and decides the direction; FRoundUp rounds; FNormal
\* renormalises a carry out of the top bit.
FNormal(neg, e, k2) ==
  IF BitLen(k2) = 54
    THEN [neg |-> neg, m |-> DivSmall(k2, 2).q, e |-> e + 1]
    ELSE [neg |-> neg, m |-> k2, e |-> e]

FRoundUp(neg, e, kept, up) ==
  FNormal(neg, e, IF up THEN AddLimbs(kept, <<1>>, 0) ELSE kept)

FRoundGuard(neg, e, s1, sticky) ==
  FRoundUp(neg, e, DivSmall(s1.q, 2).q,
           s1.q[1] % 2 = 1
             /\ (sticky \/ s1.sticky \/ (s1.q[1] \div 2) % 2 = 1))

FRoundLen(neg, m, e, sticky, L) ==
  IF L = 0 THEN FZero
  ELSE IF L <= 53
    THEN [neg |-> neg, m |-> ShiftLeftBits(m, 53 - L), e |-> e - (53 - L)]
  ELSE FRoundGuard(neg, e + (L - 53), ShiftRightBits(m, L - 54), sticky)

FRound(neg, m, e, sticky) == FRoundLen(neg, m, e, sticky, BitLen(m))

FromInt(n) ==
  FRound(n < 0, NatToLimbs(IF n >= 0 THEN n ELSE 0 - n), 0, FALSE)

\* a / b for integers a >= 0 and 0 < b <= 32768: the quotient to 80 binary
\* places, rounded
FDivRound(d) == FRound(FALSE, d.q, -80, d.r # 0)

FDiv(a, b) ==
  IF a = 0 THEN FZero
  ELSE FDivRound(DivSmall(ZeroLimbs(5) \o NatToLimbs(a), b))

\* k * f for an integer 0 <= k <= 32768
FMul(k, f) == FRound(f.neg, Strip(MulSmall(f.m, k, 0)), f.e, FALSE)

\* -1, 0, 1 as f < g, f = g, f > g
FCmpMag(f, g) ==
  IF f.m = <<>> /\ g.m = <<>> THEN 0
  ELSE IF f.m = <<>> THEN -1
  ELSE IF g.m = <<>> THEN 1
  ELSE IF f.e > g.e THEN 1
  ELSE IF f.e < g.e THEN -1
  ELSE CmpLimbs(f.m, g.m)

FCmp(f, g) ==
  IF f.neg /\ ~g.neg THEN -1
  ELSE IF ~f.neg /\ g.neg THEN 1
  ELSE (IF f.neg THEN -1 ELSE 1) * FCmpMag(f, g)

FMin(f, g) == IF FCmp(g, f) < 0 THEN g ELSE f

\* n - f for an integer n >= 0: A and B are n and |f| brought to the common
\* exponent ex, c compares them
FSubCompared(neg, ex, A, B, c) ==
  IF ~neg /\ c = 0 THEN FZero
  ELSE FRound(~neg /\ c < 0,
              IF neg THEN AddLimbs(A, B, 0)
              ELSE IF c > 0 THEN SubLimbs(A, B) ELSE SubLimbs(B, A),
              ex, FALSE)

FSubAligned(neg, ex, A, B) == FSubCompared(neg, ex, A, B, CmpLimbs(A, B))

FSub(n, f) ==
  IF f.m = <<>> THEN FromInt(n)
  ELSE FSubAligned(f.neg, Min2(f.e, 0),
                   ShiftLeftBits(NatToLimbs(n), 0 - Min2(f.e, 0)),
                   ShiftLeftBits(f.m, f.e - Min2(f.e, 0)))

FHalf(f) == IF f.m = <<>> THEN f ELSE [f EXCEPT !.e = f.e - 1]
FTwice(f) == IF f.m = <<>> THEN f ELSE [f EXCEPT !.e = f.e + 1]

(************************ computeContainPlacement **************************)
InvalidDimensions == "Dimensiones invalidas para la conversion."

\* x, y and the returned object, from width and height
centredPlacement(size, scale, width, height) ==
  [kind |-> "placement",
   x |-> FHalf(FSub(size, width)),
   y |-> FHalf(FSub(size, height)),
   width |-> width, height |-> height, scale |-> scale]

\* width and height, from scale
scaledPlacement(sourceWidth, sourceHeight, size, scale) ==
  centredPlacement(size, scale, FMul(sourceWidth, scale), FMul(sourceHeight, scale))

\* Variants of computeContainPlacement with one slip each.
\* each dimension scaled by its own factor
computeContainPlacementStretch(sourceWidth, sourceHeight, size) ==
  IF sourceWidth <= 0 \/ sourceHeight <= 0 \/ size <= 0
    THEN [kind |-> "throw", error |-> InvalidDimensions]
    ELSE centredPlacement(size,
                          FMin(FDiv(size, sourceWidth), FDiv(size, sourceHeight)),
                          FMul(sourceWidth, FDiv(size, sourceWidth)),
                          FMul(sourceHeight, FDiv(size, sourceHeight)))

\* an empty placement returned where the error is thrown
computeContainPlacementLenient(sourceWidth, sourceHeight, size) ==
  IF sourceWidth <= 0 \/ sourceHeight <= 0 \/ size <= 0
    THEN centredPlacement(Max2(size, 0), FZero, FZero, FZero)
    ELSE scaledPlacement(sourceWidth, sourceHeight, size,
                         FMin(FDiv(size, sourceWidth), FDiv(size, sourceHeight)))

computeContainPlacement(sourceWidth, sourceHeight, size) ==
  IF sourceWidth <= 0 \/ sourceHeight <= 0 \/ size <= 0
    THEN [kind |-> "throw", error |-> InvalidDimensions]
    ELSE scaledPlacement(sourceWidth, sourceHeight, size,
                         FMin(FDiv(size, sourceWidth), FDiv(size, sourceHeight)))

(************************** canvases and colours ***************************)
\* A canvas: width, height and its RGBA data, one <<r, g, b, a>> per pixel,
\* pixel (x, y) at position (y * width) + x + 1.
Canvas(w, h, data) == [width |-> w, height |-> h, data |-> data]

NoColor == [kind |-> "null"]
Rgb(r, g, b) == [kind |-> "color", r |-> r, g |-> g, b |-> b]

\* an option is undefined (Absent) or carries a value
Absent == [kind |-> "undefined"]
Given(v) == [kind |-> "given", value |-> v]

AlphaThreshold == 18
DefaultTolerance == 40
SampleAlphaMin == 18
Bucket == 24
SampleCap == 240
RenderTolerance == 42

\* Math.round of p / q for integers p >= 0, q > 0
RoundDiv(p, q) == ((2 * p) + q) \div (2 * q)

colorDistanceSquared(r1, g1, b1, r2, g2, b2) ==
  LET dr == r1 - r2
      dg == g1 - g2
      db == b1 - b2
  IN  (dr * dr) + (dg * dg) + (db * db)

(*********************** removeConnectedBackground *************************)
\* the alpha test left out
canRemoveAnyAlpha(px, vis, color, threshold, index) ==
  IF vis[index + 1] = 1 THEN FALSE
  ELSE colorDistanceSquared(px[index + 1][1], px[index + 1][2], px[index + 1][3],
                            color.r, color.g, color.b) <= threshold

canRemove(px, vis, color, threshold, index) ==
  IF vis[index + 1] = 1 THEN FALSE
  ELSE IF px[index + 1][4] < AlphaThreshold THEN FALSE
  ELSE colorDistanceSquared(px[index + 1][1], px[index + 1][2], px[index + 1][3],
                            color.r, color.g, color.b) <= threshold

\* the index pushed on the queue without being marked visited
seedIndexUnmarked(st, px, color, threshold, index) ==
  IF canRemove(px, st.visited, color, threshold, index)
    THEN [visited |-> st.visited,
          queue   |-> Append(st.queue, index)]
    ELSE st

\* st is the pair of arrays the closure seed() writes: visited and queue
seedIndex(st, px, color, threshold, index) ==
  IF canRemove(px, st.visited, color, threshold, index)
    THEN [visited |-> [st.visited EXCEPT ![index + 1] = 1],
          queue   |-> Append(st.queue, index)]
    ELSE st

seed(st, px, color, threshold, width, x, y) ==
  seedIndex(st, px, color, threshold, (y * width) + x)

RECURSIVE seedEach(_, _, _, _, _, _)
seedEach(st, px, color, threshold, width, coords) ==
  IF coords = <<>> THEN st
  ELSE seedEach(seed(st, px, color, threshold, width, coords[1][1], coords[1][2]),
                px, color, threshold, width, Tail(coords))

\* the two seeding loops: (x,0), (x,height-1) for each x, then (0,y),
\* (width-1,y) for each y
RECURSIVE RowSeeds(_, _, _)
RowSeeds(x, width, height) ==
  IF x >= width THEN <<>>
  ELSE <<<<x, 0>>, <<x, height - 1>>>> \o RowSeeds(x + 1, width, height)

RECURSIVE ColumnSeeds(_, _, _)
ColumnSeeds(y, width, height) ==
  IF y >= height THEN <<>>
  ELSE <<<<0, y>>, <<width - 1, y>>>> \o ColumnSeeds(y + 1, width, height)

\* every pixel seeded, not the border's only
EverySeed(width, height) ==
  [i \in 1..(width * height) |-> <<(i - 1) % width, (i - 1) \div width>>]

BorderSeeds(width, height) ==
  RowSeeds(0, width, height) \o ColumnSeeds(0, width, height)

\* the step down seeding the pixel above a second time
NeighboursOfNoDown(x, y, width, height) ==
  (IF x > 0 THEN <<<<x - 1, y>>>> ELSE <<>>)
    \o (IF x < width - 1 THEN <<<<x + 1, y>>>> ELSE <<>>)
    \o (IF y > 0 THEN <<<<x, y - 1>>>> ELSE <<>>)
    \o (IF y < height - 1 /\ y > 0 THEN <<<<x, y - 1>>>> ELSE <<>>)

\* the neighbours the loop body seeds for the dequeued index, in its order
NeighboursOf(x, y, width, height) ==
  (IF x > 0 THEN <<<<x - 1, y>>>> ELSE <<>>)
    \o (IF x < width - 1 THEN <<<<x + 1, y>>>> ELSE <<>>)
    \o (IF y > 0 THEN <<<<x, y - 1>>>> ELSE <<>>)
    \o (IF y < height - 1 THEN <<<<x, y + 1>>>> ELSE <<>>)

Neighbours(index, width, height) ==
  NeighboursOf(index % width, index \div width, width, height)

\* the state after the seeding loops
floodSeeded(px, color, threshold, width, height) ==
  seedEach([visited |-> [i \in 1..(width * height) |-> 0], queue |-> <<>>],
           px, color, threshold, width, BorderSeeds(width, height))

\* one turn of the while loop
floodStep(st, ptr, px, color, threshold, width, height) ==
  seedEach(st, px, color, threshold, width,
           Neighbours(st.queue[ptr + 1], width, height))

\* the four channels of a visited pixel zeroed, not its alpha only
clearVisitedWhole(px, vis) ==
  [i \in 1..Len(px) |-> IF vis[i] = 1 THEN <<0, 0, 0, 0>> ELSE px[i]]

\* the closing loop over visited
clearVisited(px, vis) ==
  [i \in 1..Len(px) |->
     IF vis[i] = 1 THEN <<px[i][1], px[i][2], px[i][3], 0>> ELSE px[i]]

(*********************** detectDominantBorderColor *************************)
\* bins is the Map in insertion order: one record per key
addToBin(bins, key, p, at) ==
  IF at = {}
    THEN Append(bins, [key |-> key, count |-> 1, r |-> p[1], g |-> p[2], b |-> p[3]])
    ELSE [bins EXCEPT ![CHOOSE j \in at : TRUE] =
            [key |-> key, count |-> @.count + 1,
             r |-> @.r + p[1], g |-> @.g + p[2], b |-> @.b + p[3]]]

BinKey(p) == <<p[1] \div Bucket, p[2] \div Bucket, p[3] \div Bucket>>

\* a pixel of alpha 18 skipped too
addSampleAbove(bins, p) ==
  IF p[4] <= SampleAlphaMin THEN bins
  ELSE addToBin(bins, BinKey(p), p, {i \in 1..Len(bins) : bins[i].key = BinKey(p)})

\* a sample added to the bin of its green level, whatever its red and blue
addSampleByGreen(bins, p) ==
  IF p[4] < SampleAlphaMin THEN bins
  ELSE addToBin(bins, BinKey(p), p, {i \in 1..Len(bins) : bins[i].key[2] = BinKey(p)[2]})

addSample(bins, p) ==
  IF p[4] < SampleAlphaMin THEN bins
  ELSE addToBin(bins, BinKey(p), p, {i \in 1..Len(bins) : bins[i].key = BinKey(p)})

addPixel(bins, data, width, x, y) == addSample(bins, data[(y * width) + x + 1])

\* addPixel for coords[lo], .., coords[hi], in that order
RECURSIVE addRange(_, _, _, _, _, _)
addRange(bins, data, width, coords, lo, hi) ==
  IF lo > hi THEN bins
  ELSE IF lo = hi THEN addPixel(bins, data, width, coords[lo][1], coords[lo][2])
  ELSE addRange(addRange(bins, data, width, coords, lo, (lo + hi) \div 2),
                data, width, coords, ((lo + hi) \div 2) + 1, hi)

addEach(bins, data, width, coords) ==
  addRange(bins, data, width, coords, 1, Len(coords))

\* how many turns a loop from x, by step, below width makes
Turns(x, width, step) == IF x >= width THEN 0 ELSE ((width - 1 - x) \div step) + 1

\* for (x; x < width; x += step) { (x, 0); (x, height - 1) }
RowSamples(x, width, height, step) ==
  [i \in 1..(2 * Turns(x, width, step)) |->
     <<x + (((i - 1) \div 2) * step), IF i % 2 = 1 THEN 0 ELSE height - 1>>]

\* for (y; y < height; y += step) { (0, y); (width - 1, y) }
ColumnSamples(y, width, height, step) ==
  [i \in 1..(2 * Turns(y, height, step)) |->
     <<IF i % 2 = 1 THEN 0 ELSE width - 1, y + (((i - 1) \div 2) * step)>>]

sampleStep(width, height) == Max2(1, Min2(width, height) \div SampleCap)

\* a later bin of the same count replaces best
RECURSIVE bestBinLast(_, _, _)
bestBinLast(bins, i, best) ==
  IF i > Len(bins) THEN best
  ELSE IF best = 0 \/ bins[i].count >= bins[best].count
    THEN bestBinLast(bins, i + 1, i)
  ELSE bestBinLast(bins, i + 1, best)

\* the loop over bins.values(): the index of best, 0 for null
RECURSIVE bestBin(_, _, _)
bestBin(bins, i, best) ==
  IF i > Len(bins) THEN best
  ELSE IF best = 0 \/ bins[i].count > bins[best].count
    THEN bestBin(bins, i + 1, i)
  ELSE bestBin(bins, i + 1, best)

\* the centre of the bin's bucket, whatever its members are
averageOfCentre(bin) ==
  Rgb((bin.key[1] * Bucket) + (Bucket \div 2), (bin.key[2] * Bucket) + (Bucket \div 2),
      (bin.key[3] * Bucket) + (Bucket \div 2))

averageOf(bin) ==
  Rgb(RoundDiv(bin.r, bin.count), RoundDiv(bin.g, bin.count),
      RoundDiv(bin.b, bin.count))

bestColor(bins, best) == IF best = 0 THEN NoColor ELSE averageOf(bins[best])

dominantOf(bins) == bestColor(bins, bestBin(bins, 1, 0))

borderSamples(width, height, step) ==
  RowSamples(0, width, height, step) \o ColumnSamples(0, width, height, step)

detectDominantBorderColor(canvas) ==
  IF canvas.width <= 0 \/ canvas.height <= 0 THEN NoColor
  ELSE dominantOf(addEach(<<>>, canvas.data, canvas.width,
                          borderSamples(canvas.width, canvas.height,
                                        sampleStep(canvas.width, canvas.height))))

(******************************* toHexColor ********************************)
\* A CSS colour string "#rrggbb" is the sequence of its six hexadecimal
\* digits; the keyword "transparent" is CssTransparent.
CssTransparent == [css |-> "transparent"]
CssHex(digits) == [css |-> "hex", digits |-> digits]
EmptyCss == [css |-> ""]

HexPair(value) ==
  LET v == Max2(0, Min2(255, value)) IN <<v \div 16, v % 16>>

toHexColor(color) ==
  IF color = NoColor THEN NoColor
  ELSE CssHex(HexPair(color.r) \o HexPair(color.g) \o HexPair(color.b))

\* what the canvas makes of a "#rrggbb" fillStyle: an opaque pixel
ParseCssHex(css) ==
  LET d == css.digits
  IN  <<(16 * d[1]) + d[2], (16 * d[3]) + d[4], (16 * d[5]) + d[6], 255>>

(************************** renderCanvasToSquare ***************************)
ClearPixel == <<0, 0, 0, 0>>

makeCanvas(width, height) ==
  Canvas(width, height, [i \in 1..(width * height) |-> ClearPixel])

\* options.size ignored
resolveSizeDefault(options) == TARGET_SIZE

resolveSize(options) ==
  IF options.size = Absent THEN TARGET_SIZE ELSE options.size.value

\* the detected colour preferred to the transparent fill
chooseGeneratedFirst(removeBackground, generateBackground, dominantHex, fallbackBackground) ==
  IF generateBackground /\ dominantHex # NoColor THEN dominantHex
  ELSE IF removeBackground THEN CssTransparent
  ELSE fallbackBackground

chooseOutputBackground(removeBackground, generateBackground, dominantHex, fallbackBackground) ==
  IF removeBackground THEN CssTransparent
  ELSE IF generateBackground /\ dominantHex # NoColor THEN dominantHex
  ELSE fallbackBackground

fillOutputBackground(canvas, size, background) ==
  IF background = CssTransparent
    THEN [canvas EXCEPT !.data = [i \in 1..(size * size) |-> ClearPixel]]
    ELSE [canvas EXCEPT !.data = [i \in 1..(size * size) |-> ParseCssHex(background)]]

\* source-over compositing of one source pixel onto one canvas pixel
BlendChannel(cs, cd, as, ad, ao) ==
  RoundDiv((cs * as * 255) + (cd * ad * (255 - as)), ao * 255)

Blend(src, dst, ao) ==
  <<BlendChannel(src[1], dst[1], src[4], dst[4], ao),
    BlendChannel(src[2], dst[2], src[4], dst[4], ao),
    BlendChannel(src[3], dst[3], src[4], dst[4], ao), ao>>

Composite(src, dst) ==
  IF src[4] = 255 THEN src
  ELSE IF src[4] = 0 THEN dst
  ELSE Blend(src, dst, src[4] + RoundDiv(dst[4] * (255 - src[4]), 255))

\* Along one axis: the source column (row) drawn at each output column (row),
\* or -1 where the centre of the output pixel lies outside the placed
\* rectangle [offset, offset + placed).  The resampling filter is the
\* browser's; the model samples the source pixel under the pixel centre.
axisSource(sourceLen, scale, d2, placed2) ==
  IF FCmp(d2, FZero) < 0 \/ FCmp(d2, placed2) >= 0 THEN -1
  ELSE Cardinality({k \in 1..(sourceLen - 1) : FCmp(FMul(2 * k, scale), d2) <= 0})

axisAt(p, sourceLen, offset, placed, scale) ==
  axisSource(sourceLen, scale, FSub((2 * p) + 1, FTwice(offset)), FMul(2, placed))

\* the sequence of axisAt for the output columns (rows) p, p + 1, .., size - 1
RECURSIVE axisMap(_, _, _, _, _, _)
axisMap(p, size, sourceLen, offset, placed, scale) ==
  IF p >= size THEN <<>>
  ELSE <<axisAt(p, sourceLen, offset, placed, scale)>>
         \o axisMap(p + 1, size, sourceLen, offset, placed, scale)

drawMapped(canvas, source, cols, rows) ==
  [canvas EXCEPT !.data =
     [i \in 1..(canvas.width * canvas.width) |->
        IF cols[((i - 1) % canvas.width) + 1] < 0
             \/ rows[((i - 1) \div canvas.width) + 1] < 0
          THEN canvas.data[i]
          ELSE Composite(
                 source.data[(rows[((i - 1) \div canvas.width) + 1] * source.width)
                               + cols[((i - 1) % canvas.width) + 1] + 1],
                 canvas.data[i])]]

\* drawn at the origin, the placement's x and y ignored
drawImageAtOrigin(canvas, source, pl) ==
  drawMapped(canvas, source,
             axisMap(0, canvas.width, source.width, FZero, pl.width, pl.scale),
             axisMap(0, canvas.width, source.height, FZero, pl.height, pl.scale))

drawImage(canvas, source, pl) ==
  drawMapped(canvas, source,
             axisMap(0, canvas.width, source.width, pl.x, pl.width, pl.scale),
             axisMap(0, canvas.width, source.height, pl.y, pl.height, pl.scale))

(**************************** sanitizeLayerName *****************************)
\* A string is the sequence of its characters; an ASCII character is itself,
\* another one is named by its code point.
CombiningAcute == "U+0301"
EAcute == "U+00E9"

\* \s of the regular expressions, as far as names carry it
WhitespaceChars == { " " }

\* [\\/:*?"<>|]
ForbiddenChars == { "\\", "/", ":", "*", "?", "\"", "<", ">", "|" }

\* [A-Za-z0-9._-]
SafeChars ==
  { "A", "B", "C", "D", "E", "F", "G", "H", "I", "J", "K", "L", "M", "N", "O", "P",
    "Q", "R", "S", "T", "U", "V", "W", "X", "Y", "Z", "a", "b", "c", "d", "e", "f",
    "g", "h", "i", "j", "k", "l", "m", "n", "o", "p", "q", "r", "s", "t", "u", "v",
    "w", "x", "y", "z", "0", "1", "2", "3", "4", "5", "6", "7", "8", "9", ".", "_",
    "-" }

\* [\u0300-\u036f], as far as normalize produces it here
CombiningMarks == { CombiningAcute }

\* normalize("NFKD") of one character
Decomposed(c) == IF c = EAcute THEN <<"e", CombiningAcute>> ELSE <<c>>

RECURSIVE normalizeNFKD(_)
normalizeNFKD(s) ==
  IF s = <<>> THEN <<>> ELSE Decomposed(Head(s)) \o normalizeNFKD(Tail(s))

RECURSIVE dropAll(_, _)
dropAll(s, chars) ==
  IF s = <<>> THEN <<>>
  ELSE IF Head(s) \in chars THEN dropAll(Tail(s), chars)
  ELSE <<Head(s)>> \o dropAll(Tail(s), chars)

RECURSIVE keepOnly(_, _)
keepOnly(s, chars) ==
  IF s = <<>> THEN <<>>
  ELSE IF Head(s) \in chars THEN <<Head(s)>> \o keepOnly(Tail(s), chars)
  ELSE keepOnly(Tail(s), chars)

\* replace(/[chars]+/g, by): every maximal run of chars becomes one by
RECURSIVE replaceRuns(_, _, _)
replaceRuns(s, chars, by) ==
  IF s = <<>> THEN <<>>
  ELSE IF Head(s) \in chars
    THEN IF Len(s) > 1 /\ s[2] \in chars
           THEN replaceRuns(Tail(s), chars, by)
           ELSE <<by>> \o replaceRuns(Tail(s), chars, by)
  ELSE <<Head(s)>> \o replaceRuns(Tail(s), chars, by)

RECURSIVE stripLeading(_, _)
stripLeading(s, chars) ==
  IF s # <<>> /\ Head(s) \in chars THEN stripLeading(Tail(s), chars) ELSE s

RECURSIVE stripTrailing(_, _)
stripTrailing(s, chars) ==
  IF s # <<>> /\ s[Len(s)] \in chars
    THEN stripTrailing(SubSeq(s, 1, Len(s) - 1), chars) ELSE s

trim(s) == stripTrailing(stripLeading(s, WhitespaceChars), WhitespaceChars)

DigitChars == <<"0", "1", "2", "3", "4", "5", "6", "7", "8", "9">>

\* the decimal digits of a natural number
RECURSIVE decimal(_)
decimal(n) ==
  IF n < 10 THEN <<DigitChars[n + 1]>>
  ELSE decimal(n \div 10) \o <<DigitChars[(n % 10) + 1]>>

\* `layer_${fallbackIndex + 1}`
fallbackName(fallbackIndex) ==
  <<"l", "a", "y", "e", "r", "_">> \o decimal(fallbackIndex + 1)

orFallback(s, fallbackIndex) == IF s = <<>> THEN fallbackName(fallbackIndex) ELSE s

\* the chain of normalize and replace calls
safeOf(base) ==
  stripTrailing(
    stripLeading(
      keepOnly(
        replaceRuns(
          replaceRuns(dropAll(normalizeNFKD(base), CombiningMarks),
                      ForbiddenChars, " "),
          WhitespaceChars, "_"),
        SafeChars),
      {"_"}),
    {"_"})

sanitizeLayerName(name, fallbackIndex) ==
  orFallback(
    safeOf(orFallback(trim(IF name = Absent THEN <<>> ELSE name.value),
                      fallbackIndex)),
    fallbackIndex)

(***************************** collectPsdLayers ****************************)
\* A layer is [name, children, canvas, imageData, left, top]; name, children,
\* canvas, imageData, left and top are Absent or Given.  A psd is NoPsd or
\* [width, height, children].
NoCanvas == [kind |-> "null"]
NoPsd == [kind |-> "null"]

\* normalizeImageData and putImageData on a canvas of its size
buildCanvasFromImageData(imageData) ==
  IF imageData = Absent THEN NoCanvas
  ELSE Canvas(imageData.value.width, imageData.value.height, imageData.value.data)

buildLayerCanvas(layer) ==
  IF layer.canvas # Absent THEN layer.canvas.value
  ELSE buildCanvasFromImageData(layer.imageData)

\* the image at the corner of the canvas, dx and dy ignored
drawImageAtCorner(canvas, image, dx, dy) ==
  [canvas EXCEPT !.data =
     [i \in 1..(canvas.width * canvas.height) |->
        IF /\ ((i - 1) % canvas.width) \in 0..(image.width - 1)
           /\ ((i - 1) \div canvas.width) \in 0..(image.height - 1)
          THEN Composite(
                 image.data[(((i - 1) \div canvas.width) * image.width)
                              + ((i - 1) % canvas.width) + 1],
                 canvas.data[i])
          ELSE canvas.data[i]]]

\* context.drawImage(image, dx, dy): image at its own size, its corner at
\* (dx, dy), composited source-over
drawImageAt(canvas, image, dx, dy) ==
  [canvas EXCEPT !.data =
     [i \in 1..(canvas.width * canvas.height) |->
        IF /\ ((i - 1) % canvas.width) - dx \in 0..(image.width - 1)
           /\ ((i - 1) \div canvas.width) - dy \in 0..(image.height - 1)
          THEN Composite(
                 image.data[((((i - 1) \div canvas.width) - dy) * image.width)
                              + (((i - 1) % canvas.width) - dx) + 1],
                 canvas.data[i])
          ELSE canvas.data[i]]]

\* groupPath.join("__")
RECURSIVE joinPath(_)
joinPath(groupPath) ==
  IF Len(groupPath) = 0 THEN <<>>
  ELSE IF Len(groupPath) = 1 THEN groupPath[1]
  ELSE groupPath[1] \o <<"_", "_">> \o joinPath(Tail(groupPath))

finiteOr0(offset) == IF offset = Absent THEN 0 ELSE offset.value

hasChildren(layer) == layer.children # Absent /\ Len(layer.children.value) > 0

\* a canvas without columns or rows pushed like any other
leafEntryEmptyKept(psd, layer, groupPath, layerCanvas) ==
  IF layerCanvas = NoCanvas THEN <<>>
  ELSE <<[name |-> joinPath(groupPath),
          canvas |-> drawImageAt(makeCanvas(psd.width, psd.height), layerCanvas,
                                 finiteOr0(layer.left), finiteOr0(layer.top))]>>

\* the name only, the ancestors left out
leafEntryLocalName(psd, layer, groupPath, layerCanvas) ==
  IF layerCanvas = NoCanvas THEN <<>>
  ELSE IF layerCanvas.width <= 0 \/ layerCanvas.height <= 0 THEN <<>>
  ELSE <<[name |-> groupPath[Len(groupPath)],
          canvas |-> drawImageAt(makeCanvas(psd.width, psd.height), layerCanvas,
                                 finiteOr0(layer.left), finiteOr0(layer.top))]>>

\* what a layer without children pushes on the list: nothing, or its entry
leafEntry(psd, layer, groupPath, layerCanvas) ==
  IF layerCanvas = NoCanvas THEN <<>>
  ELSE IF layerCanvas.width <= 0 \/ layerCanvas.height <= 0 THEN <<>>
  ELSE <<[name |-> joinPath(groupPath),
          canvas |-> drawImageAt(makeCanvas(psd.width, psd.height), layerCanvas,
                                 finiteOr0(layer.left), finiteOr0(layer.top))]>>

\* the later siblings walked before the layer and its descendants
RECURSIVE walkLayersLaterFirst(_, _, _, _)
walkLayersLaterFirst(psd, layers, prefix, index) ==
  IF index > Len(layers) THEN <<>>
  ELSE walkLayersLaterFirst(psd, layers, prefix, index + 1)
       \o (IF hasChildren(layers[index])
             THEN walkLayersLaterFirst(psd, layers[index].children.value,
                          prefix \o <<sanitizeLayerName(layers[index].name, index - 1)>>, 1)
             ELSE leafEntry(psd, layers[index],
                         prefix \o <<sanitizeLayerName(layers[index].name, index - 1)>>,
                         buildLayerCanvas(layers[index])))

\* walkLayers(layers, prefix): what forEach pushes from the index-th layer on
\* (index counted from 1 here, from 0 in the code)
RECURSIVE walkLayers(_, _, _, _)
walkLayers(psd, layers, prefix, index) ==
  IF index > Len(layers) THEN <<>>
  ELSE (IF hasChildren(layers[index])
          THEN walkLayers(psd, layers[index].children.value,
                          prefix \o <<sanitizeLayerName(layers[index].name, index - 1)>>, 1)
          ELSE leafEntry(psd, layers[index],
                         prefix \o <<sanitizeLayerName(layers[index].name, index - 1)>>,
                         buildLayerCanvas(layers[index])))
       \o walkLayers(psd, layers, prefix, index + 1)

collectPsdLayers(psd) ==
  walkLayers(psd, IF psd.children = Absent THEN <<>> ELSE psd.children.value, <<>>, 1)

(***************************** inputs explored *****************************)
TestDims == {900, 1200, 1600}
SourceDims == (-1..MaxSrc) \cup TestDims
Sizes == (-1..MaxSize) \cup {TARGET_SIZE}

\* Canvases handed to removeConnectedBackground: every width x height up to
\* MaxDim a side and MaxArea pixels, every pixel either the target colour,
\* opaque, or one other pixel value of OtherPixels.
TargetColor == Rgb(100, 100, 100)
TargetPixel == <<100, 100, 100, 255>>
OtherPixels ==
  { <<0, 0, 0, 255>>,        \* far from the target colour
    <<140, 100, 100, 255>>,  \* at distance 40
    <<142, 100, 100, 255>>,  \* at distance 42
    <<143, 100, 100, 255>>,  \* at distance 43
    <<100, 100, 100, 18>>,   \* the target colour at the alpha threshold
    <<100, 100, 100, 17>>,   \* the target colour just below it
    <<0, 0, 0, 0>> }         \* fully transparent
Tolerances == {DefaultTolerance, RenderTolerance}

CanvasesOver(w, h, others) ==
  UNION { { Canvas(w, h, d) : d \in [1..(w * h) -> {TargetPixel, o}] }
          : o \in others }

CanvasesOfSize(w, h) == CanvasesOver(w, h, OtherPixels)

RemoveDims ==
  { wh \in (1..MaxDim) \X (1..MaxDim) : wh[1] * wh[2] <= MaxArea }

RemoveCanvases == UNION { CanvasesOfSize(wh[1], wh[2]) : wh \in RemoveDims }

\* Sources handed to renderCanvasToSquare, the empty ones (a side of 0) too
RenderDims ==
  { wh \in (0..MaxSourceDim) \X (0..MaxSourceDim) : wh[1] * wh[2] <= MaxSourceArea }

\* their pixels: the target colour, opaque, and one of these
RenderPixels ==
  { <<0, 0, 0, 255>>,        \* far from the target colour
    <<142, 100, 100, 255>>,  \* at distance 42, the tolerance of a render
    <<100, 100, 100, 17>> }  \* too transparent to be sampled or removed

RenderSources ==
  UNION { CanvasesOver(wh[1], wh[2], RenderPixels) : wh \in RenderDims }

RenderOptions ==
  [ size : {Absent, Given(AppSize)} \cup {Given(n) : n \in 0..MaxOut},
    removeBackground : BOOLEAN,
    generateBackground : BOOLEAN,
    background : {Absent, CssHex(<<0, 0, 0, 0, 15, 15>>)},
    backgroundTolerance : {Absent, Given(DefaultTolerance)} ]

(***************************** specification *******************************)
Init ==
  /\ args = NoCall
  /\ placement = NoCall
  /\ rin = NoCall
  /\ rloc = NoCall
  /\ rout = NoCall
  /\ rargs = NoCall
  /\ rcanvas = NoCall
  /\ pixels = <<>>
  /\ visited = <<>>
  /\ queue = <<>>
  /\ pointer = 0
  /\ rpc = "idle"
  /\ runs = 0
  /\ original = NoCall
  /\ afterFirst = NoCall
  /\ dcanvas = NoCall
  /\ dsamples = <<>>
  /\ dbins = <<>>
  /\ dturn = 0
  /\ dresult = NoCall
  /\ xin = NoCall
  /\ xlayers = <<>>
  /\ xindex = 0
  /\ xresults = <<>>
  /\ xout = NoCall
  /\ items = <<>>
  /\ app = [processing |-> FALSE, importingAttachments |-> FALSE,
            overwriteDuplicates |-> TRUE, extractPsdLayers |-> FALSE,
            progress |-> [done |-> 0, total |-> 0]]
  /\ run = NoCall
  /\ tcall = NoCall
  /\ tsent = <<>>
  /\ tout = NoCall

Idle ==
  args = NoCall /\ rin = NoCall /\ rpc = "idle" /\ dcanvas = NoCall /\ xin = NoCall

CallPlacement ==
  /\ Idle
  /\ \E sw \in SourceDims, sh \in SourceDims, size \in Sizes :
       /\ args' = [kind |-> "call", sourceWidth |-> sw, sourceHeight |-> sh,
                   size |-> size]
       /\ placement' = computeContainPlacement(sw, sh, size)
  /\ UNCHANGED <<renderVars, removeVars>>
  /\ UNCHANGED detectVars
  /\ UNCHANGED extractVars
  /\ UNCHANGED shellVars

(*********************** removeConnectedBackground *************************)
\* the guard on a null colour left out: the call fails where it reads color.r
StartRemoveUnguarded(canvas, color, tolerance) ==
  /\ rargs' = [kind |-> "call", color |-> color, tolerance |-> tolerance]
  /\ IF color = NoColor
       THEN /\ rcanvas' = canvas
            /\ rpc' = "threw"
            /\ UNCHANGED <<pixels, visited, queue, pointer, runs, afterFirst>>
       ELSE LET st == floodSeeded(canvas.data, color, tolerance * tolerance,
                                  canvas.width, canvas.height)
            IN  /\ rcanvas' = canvas
                /\ pixels' = canvas.data
                /\ visited' = st.visited
                /\ queue' = st.queue
                /\ pointer' = 0
                /\ rpc' = "loop"
                /\ UNCHANGED <<runs, afterFirst>>

\* removeConnectedBackground up to the end of its seeding loops
StartRemove(canvas, color, tolerance) ==
  /\ rargs' = [kind |-> "call", color |-> color, tolerance |-> tolerance]
  /\ IF color = NoColor
       THEN /\ rcanvas' = canvas
            /\ rpc' = "done"
            /\ runs' = runs + 1
            /\ afterFirst' = IF runs = 0 THEN canvas ELSE afterFirst
            /\ UNCHANGED <<pixels, visited, queue, pointer>>
       ELSE LET st == floodSeeded(canvas.data, color, tolerance * tolerance,
                                  canvas.width, canvas.height)
            IN  /\ rcanvas' = canvas
                /\ pixels' = canvas.data
                /\ visited' = st.visited
                /\ queue' = st.queue
                /\ pointer' = 0
                /\ rpc' = "loop"
                /\ UNCHANGED <<runs, afterFirst>>

CallRemove ==
  /\ Idle
  /\ \E canvas \in RemoveCanvases, color \in {NoColor, TargetColor},
        tolerance \in Tolerances :
       /\ original' = canvas
       /\ StartRemove(canvas, color, tolerance)
  /\ UNCHANGED <<placementVars, renderVars>>
  /\ UNCHANGED detectVars
  /\ UNCHANGED extractVars
  /\ UNCHANGED shellVars

\* one turn of the while loop
RemoveStep ==
  /\ rpc = "loop"
  /\ pointer < Len(queue)
  /\ LET st == floodStep([visited |-> visited, queue |-> queue], pointer, pixels,
                         rargs.color, rargs.tolerance * rargs.tolerance,
                         rcanvas.width, rcanvas.height)
     IN  /\ visited' = st.visited
         /\ queue' = st.queue
  /\ pointer' = pointer + 1
  /\ UNCHANGED <<placementVars, renderVars, rargs, rcanvas, pixels, rpc, runs,
                 original, afterFirst>>
  /\ UNCHANGED detectVars
  /\ UNCHANGED extractVars
  /\ UNCHANGED shellVars

\* the loop has ended: clear the visited pixels' alpha and put the data back
RemoveFinish ==
  /\ rpc = "loop"
  /\ pointer >= Len(queue)
  /\ pixels' = clearVisited(pixels, visited)
  /\ rcanvas' = [rcanvas EXCEPT !.data = pixels']
  /\ rpc' = "done"
  /\ runs' = runs + 1
  /\ afterFirst' = IF runs = 0 THEN rcanvas' ELSE afterFirst
  /\ UNCHANGED <<placementVars, renderVars, rargs, visited, queue, pointer,
                 original>>
  /\ UNCHANGED detectVars
  /\ UNCHANGED extractVars
  /\ UNCHANGED shellVars

\* a second call on the same canvas with the same colour and tolerance
CallRemoveAgain ==
  /\ rin = NoCall
  /\ rpc = "done"
  /\ runs = 1
  /\ StartRemove(rcanvas, rargs.color, rargs.tolerance)
  /\ UNCHANGED <<placementVars, renderVars, original>>
  /\ UNCHANGED detectVars
  /\ UNCHANGED extractVars
  /\ UNCHANGED shellVars

(************************** renderCanvasToSquare ***************************)
\* Pixel contents are computed for outputs of up to MaxOut a side; a larger
\* output (the 800 default) carries its dimensions only.
HasPixels(size) == size <= MaxOut

fallbackOf(options) ==
  IF options.background = Absent
    THEN CssHex(<<15, 15, 15, 15, 15, 15>>) ELSE options.background

toleranceOf(options) ==
  IF options.backgroundTolerance = Absent
    THEN RenderTolerance ELSE options.backgroundTolerance.value

\* from the call to computeContainPlacement, which may throw; the locals are
\* bound one after the other, as the code assigns them
StartRender(source, options) ==
  \E size \in {resolveSize(options)},
     dominantColor \in {detectDominantBorderColor(source)} :
  \E dominantHex \in {toHexColor(dominantColor)} :
  \E outputBackground \in
       {chooseOutputBackground(options.removeBackground,
                               options.generateBackground,
                               dominantHex, fallbackOf(options))},
     pl \in {computeContainPlacement(source.width, source.height, size)} :
    /\ rin' = [kind |-> "call", sourceCanvas |-> source, options |-> options]
    /\ rcanvas' =
         IF HasPixels(size)
           THEN fillOutputBackground(makeCanvas(size, size), size,
                                     outputBackground)
           ELSE Canvas(size, size, <<>>)
    /\ rloc' = [size |-> size,
                removeBackground |-> options.removeBackground,
                dominantColor |-> dominantColor,
                dominantHex |-> dominantHex,
                outputBackground |-> outputBackground,
                tolerance |-> toleranceOf(options),
                placement |-> pl,
                at |-> IF pl.kind = "throw" THEN "threw" ELSE "placed"]
    /\ rout' = IF pl.kind = "throw" THEN pl ELSE [kind |-> "pending"]

CallRender ==
  /\ Idle
  /\ \E source \in RenderSources, options \in RenderOptions :
       StartRender(source, options)
  /\ UNCHANGED <<placementVars, rargs, pixels, visited, queue, pointer, rpc, runs,
                 original, afterFirst>>
  /\ UNCHANGED detectVars
  /\ UNCHANGED extractVars
  /\ UNCHANGED shellVars

\* context.drawImage(sourceCanvas, placement.x, placement.y, width, height)
RenderDraw ==
  /\ rin # NoCall
  /\ rloc.at = "placed"
  /\ rcanvas' = IF HasPixels(rloc.size)
                  THEN drawImage(rcanvas, rin.sourceCanvas, rloc.placement)
                  ELSE rcanvas
  /\ rloc' = [rloc EXCEPT !.at = "drawn"]
  /\ UNCHANGED <<placementVars, rin, rout, rargs, pixels, visited, queue, pointer,
                 rpc, runs, original, afterFirst>>
  /\ UNCHANGED detectVars
  /\ UNCHANGED extractVars
  /\ UNCHANGED shellVars

RemovesBackground ==
  rloc.removeBackground /\ rloc.dominantColor # NoColor /\ HasPixels(rloc.size)

\* if (removeBackground && dominantColor) removeConnectedBackground(...)
RenderRemove ==
  /\ rin # NoCall
  /\ rloc.at = "drawn"
  /\ RemovesBackground
  /\ original' = rcanvas
  /\ StartRemove(rcanvas, rloc.dominantColor, rloc.tolerance)
  /\ rloc' = [rloc EXCEPT !.at = "removing"]
  /\ UNCHANGED <<placementVars, rin, rout>>
  /\ UNCHANGED detectVars
  /\ UNCHANGED extractVars
  /\ UNCHANGED shellVars

\* canvasToPngBlob and the return
RenderReturn ==
  /\ rin # NoCall
  /\ IF RemovesBackground
       THEN rloc.at = "removing" /\ rpc = "done"
       ELSE rloc.at = "drawn"
  /\ rout' = [kind |-> "result",
              blob |-> rcanvas,
              sourceWidth |-> rin.sourceCanvas.width,
              sourceHeight |-> rin.sourceCanvas.height,
              placement |-> rloc.placement,
              dominantBackground |->
                IF rloc.dominantHex = NoColor THEN EmptyCss ELSE rloc.dominantHex]
  /\ rloc' = [rloc EXCEPT !.at = "returned"]
  /\ UNCHANGED <<placementVars, rin, removeVars>>
  /\ UNCHANGED detectVars
  /\ UNCHANGED extractVars
  /\ UNCHANGED shellVars

Next ==
  \/ CallPlacement
  \/ CallRender
  \/ RenderDraw
  \/ RenderRemove
  \/ RemoveStep
  \/ RemoveFinish
  \/ RenderReturn

Spec == Init /\ [][Next]_vars

NextRemove == CallRemove \/ RemoveStep \/ RemoveFinish \/ CallRemoveAgain

SpecRemove == Init /\ [][NextRemove]_vars

\* removeConnectedBackground(canvas, color): the tolerance left to its default
CallRemoveDefault ==
  /\ Idle
  /\ \E canvas \in RemoveCanvases, color \in {NoColor, TargetColor} :
       /\ original' = canvas
       /\ StartRemove(canvas, color, DefaultTolerance)
  /\ UNCHANGED <<placementVars, renderVars>>
  /\ UNCHANGED detectVars
  /\ UNCHANGED extractVars
  /\ UNCHANGED shellVars

NextRemoveOnce == CallRemoveDefault \/ RemoveStep \/ RemoveFinish

\* the while loop runs on once entered: every turn of it and the closing loop
\* are steps of one synchronous call, which nothing interrupts
SpecRemoveFair ==
  Init /\ [][NextRemoveOnce]_vars /\ WF_vars(RemoveStep) /\ WF_vars(RemoveFinish)

(*************** properties of computeContainPlacement **********************)
\* a call with strictly positive arguments has returned
PositiveCall ==
  /\ args # NoCall
  /\ args.sourceWidth > 0
  /\ args.sourceHeight > 0
  /\ args.size > 0

\* Exact (unrounded) arithmetic on positive numbers m * 2^e, for stating
\* what the rounded results are compared with.
ExactTimes(f, k) == [m |-> Strip(MulSmall(f.m, k, 0)), e |-> f.e]
AlignedTo(a, ex) == ShiftLeftBits(a.m, a.e - ex)
AbsDiff(A, B) == IF CmpLimbs(A, B) >= 0 THEN SubLimbs(A, B) ELSE SubLimbs(B, A)
\* |A - B| <= B * 2^-51
WithinRounding(A, B) == CmpLimbs(ShiftLeftBits(AbsDiff(A, B), 51), B) <= 0
\* width * sourceHeight and height * sourceWidth, at a common exponent
WidthByHeight(ex) == AlignedTo(ExactTimes(placement.width, args.sourceHeight), ex)
HeightByWidth(ex) == AlignedTo(ExactTimes(placement.height, args.sourceWidth), ex)
CrossExponent == Min2(placement.width.e, placement.height.e)

IsNumber(f, n) == FCmp(f, FromInt(n)) = 0

\* C1: for strictly positive arguments the returned width and height are both
\* at most size, and at least one of them equals size exactly.
C1_ContainInvariant ==
  PositiveCall =>
    /\ placement.kind = "placement"
    /\ FCmp(placement.width, FromInt(args.size)) <= 0
    /\ FCmp(placement.height, FromInt(args.size)) <= 0
    /\ \/ IsNumber(placement.width, args.size)
       \/ IsNumber(placement.height, args.size)

\* C2 as claimed: for strictly positive arguments,
\* width * sourceHeight = height * sourceWidth exactly.
C2_ExactAspectRatio ==
  PositiveCall =>
    WidthByHeight(CrossExponent) = HeightByWidth(CrossExponent)

\* C2 as amended: for strictly positive arguments, width * sourceHeight and
\* height * sourceWidth agree to within the rounding of the two products, a
\* relative difference of at most 2^-51.
C2_AspectRatioWithinRounding ==
  PositiveCall =>
    /\ placement.kind = "placement"
    /\ WithinRounding(WidthByHeight(CrossExponent), HeightByWidth(CrossExponent))

\* a non-square source was placed and the two products differ in the last place
C2_Witness ==
  /\ PositiveCall
  /\ args.sourceWidth # args.sourceHeight
  /\ WidthByHeight(CrossExponent) # HeightByWidth(CrossExponent)

\* the three placements of the unit tests
IsPlacement(sw, sh, size, w, h, x, y) ==
  (args.sourceWidth = sw /\ args.sourceHeight = sh /\ args.size = size) =>
    /\ IsNumber(placement.width, w)
    /\ IsNumber(placement.height, h)
    /\ IsNumber(placement.x, x)
    /\ IsNumber(placement.y, y)

\* C3: for strictly positive arguments x >= 0 and y >= 0; a landscape source
\* has width = size and x = 0, a portrait source height = size and y = 0, a
\* square source fills the square; (1600,900,800) gives 800x450 at (0,175),
\* (900,1600,800) gives 450x800 at (175,0), (1200,1200,800) 800x800 at (0,0).
C3_Centred ==
  PositiveCall =>
    /\ placement.kind = "placement"
    /\ FCmp(placement.x, FZero) >= 0
    /\ FCmp(placement.y, FZero) >= 0
    /\ args.sourceWidth >= args.sourceHeight =>
         IsNumber(placement.width, args.size) /\ IsNumber(placement.x, 0)
    /\ args.sourceHeight >= args.sourceWidth =>
         IsNumber(placement.height, args.size) /\ IsNumber(placement.y, 0)
    /\ IsPlacement(1600, 900, 800, 800, 450, 0, 175)
    /\ IsPlacement(900, 1600, 800, 450, 800, 175, 0)
    /\ IsPlacement(1200, 1200, 800, 800, 800, 0, 0)

\* the part of C3 the unit tests state
TestedPlacements ==
  PositiveCall =>
    /\ IsPlacement(1600, 900, 800, 800, 450, 0, 175)
    /\ IsPlacement(900, 1600, 800, 450, 800, 175, 0)
    /\ IsPlacement(1200, 1200, 800, 800, 800, 0, 0)

Thrown == [kind |-> "throw", error |-> InvalidDimensions]

\* C4: a call of computeContainPlacement with sourceWidth <= 0, sourceHeight
\* <= 0 or size <= 0 throws the invalid-dimensions error and yields no
\* placement; renderCanvasToSquare on a source of zero width or height throws
\* the same error, returns no blob, and goes no further.
C4_InvalidDimensionsThrow ==
  /\ (args # NoCall
        /\ (args.sourceWidth <= 0 \/ args.sourceHeight <= 0 \/ args.size <= 0))
       => placement = Thrown
  /\ (rin # NoCall
        /\ (rin.sourceCanvas.width = 0 \/ rin.sourceCanvas.height = 0))
       => rout = Thrown /\ rloc.at = "threw"

\* a render of a source of zero width, with a positive size, has thrown
C4_Witness ==
  /\ rin # NoCall
  /\ rin.sourceCanvas.width = 0
  /\ rloc.size > 0
  /\ rout = Thrown

(***************** properties of renderCanvasToSquare ***********************)
Returned == rin # NoCall /\ rout.kind = "result"

\* the size the caller asked for
RequestedSize ==
  IF rin.options.size = Absent THEN TARGET_SIZE ELSE rin.options.size.value

\* C5: for a source of positive dimensions and any options, the returned
\* buffer is exactly size x size, 800 x 800 when no size is given and in the
\* application's calls, and holds size * size pixels.
C5_OutputIsSquare ==
  Returned =>
    /\ rout.blob.width = RequestedSize
    /\ rout.blob.height = RequestedSize
    /\ HasPixels(RequestedSize) =>
         Len(rout.blob.data) = RequestedSize * RequestedSize
    /\ rin.options.size \in {Absent, Given(AppSize)} => rout.blob.width = 800

\* a non-square source rendered to a given size with its background removed
C5_Witness ==
  /\ Returned
  /\ rin.sourceCanvas.width # rin.sourceCanvas.height
  /\ rin.options.removeBackground
  /\ rin.options.size # Absent
  /\ rpc = "done"
  /\ rout.blob.width = rin.options.size.value

\* the pixel a fill paints
FillPixelOf(background) ==
  IF background = CssTransparent THEN ClearPixel ELSE ParseCssHex(background)

\* the pixel C6 expects the fill to paint
ExpectedFill ==
  IF rin.options.removeBackground THEN ClearPixel
  ELSE IF rin.options.generateBackground /\ rloc.dominantColor # NoColor
    THEN <<rloc.dominantColor.r, rloc.dominantColor.g, rloc.dominantColor.b, 255>>
  ELSE ParseCssHex(fallbackOf(rin.options))

\* C6: with removeBackground the fill is transparent, whatever
\* generateBackground and the detection say; otherwise, with generateBackground
\* and a detected dominant colour, it is that colour; otherwise the fallback
\* colour.  The canvas, once filled, holds that fill in every pixel.
C6_FillPrecedence ==
  rin # NoCall =>
    /\ (rloc.outputBackground = CssTransparent) = rin.options.removeBackground
    /\ FillPixelOf(rloc.outputBackground) = ExpectedFill
    /\ (rloc.at \in {"threw", "placed"} /\ HasPixels(rloc.size)) =>
         \A i \in 1..(rloc.size * rloc.size) : rcanvas.data[i] = ExpectedFill

\* both options set and a dominant colour detected: the fill is transparent
C6_Witness ==
  /\ rin # NoCall
  /\ rin.options.removeBackground
  /\ rin.options.generateBackground
  /\ rloc.dominantColor # NoColor
  /\ rloc.size > 0
  /\ rloc.size <= MaxOut
  /\ rloc.outputBackground = CssTransparent

\* column (row) p, the interval [p, p + 1), lies wholly outside
\* [offset, offset + placed)
AxisOutside(p, offset, placed) ==
  \/ FCmp(FromInt(p + 1), offset) <= 0
  \/ FCmp(FSub(p, offset), placed) >= 0

CarriesFill(pixel, background) ==
  IF background = CssTransparent THEN pixel[4] = 0
  ELSE pixel = ParseCssHex(background)

\* the pixels of column p, and of row p, of a size x size buffer
ColumnPixels(p, size) == {(q * size) + p + 1 : q \in 0..(size - 1)}
RowPixels(p, size) == {(p * size) + q + 1 : q \in 0..(size - 1)}

\* the pixels wholly outside the placement rectangle: those of a column or of
\* a row outside it
OutsidePixels(size, pl) ==
  UNION ({ColumnPixels(p, size) :
            p \in {c \in 0..(size - 1) : AxisOutside(c, pl.x, pl.width)}}
         \cup {RowPixels(p, size) :
                 p \in {r \in 0..(size - 1) : AxisOutside(r, pl.y, pl.height)}})

Drawn == rin # NoCall /\ rloc.at \in {"drawn", "returned"}

\* C7: once the source is drawn, and in the returned buffer, every pixel
\* wholly outside the placement rectangle carries the fill: the fill colour,
\* opaque, for a solid fill, alpha 0 for the transparent fill.
C7_OutsideCarriesFill ==
  (Drawn /\ HasPixels(rloc.size)) =>
    \A i \in OutsidePixels(rloc.size, rloc.placement) :
      CarriesFill(rcanvas.data[i], rloc.outputBackground)

\* a buffer returned with a solid fill, a pixel outside the rectangle and a
\* pixel that took its value from the source
C7_Witness ==
  /\ Returned
  /\ HasPixels(rloc.size)
  /\ rloc.outputBackground # CssTransparent
  /\ OutsidePixels(rloc.size, rloc.placement) # {}
  /\ \E j \in 1..(rloc.size * rloc.size) :
       rout.blob.data[j] # ParseCssHex(rloc.outputBackground)

(*************** properties of removeConnectedBackground ********************)
\* Pixels are named by their index, from 0, as in the code.
\* the first call has returned, with a colour to remove
FirstRunDone == rpc = "done" /\ runs = 1 /\ rargs.color # NoColor

MatchesColor(pixel, color, tolerance) ==
  ((pixel[1] - color.r) * (pixel[1] - color.r))
    + ((pixel[2] - color.g) * (pixel[2] - color.g))
    + ((pixel[3] - color.b) * (pixel[3] - color.b)) <= tolerance * tolerance

\* the pixels of canvas whose colour matches
MatchingIn(canvas, color, tolerance) ==
  {i \in 0..((canvas.width * canvas.height) - 1) :
     MatchesColor(canvas.data[i + 1], color, tolerance)}

\* the matching pixels of alpha minAlpha or more
RemovableIn(canvas, color, tolerance, minAlpha) ==
  {i \in MatchingIn(canvas, color, tolerance) : canvas.data[i + 1][4] >= minAlpha}

BorderOf(width, height) ==
  {i \in 0..((width * height) - 1) :
     \/ i % width = 0
     \/ i % width = width - 1
     \/ i \div width = 0
     \/ i \div width = height - 1}

\* i and j are 4-neighbours in a buffer of this width
Adjacent(i, j, width) ==
  \/ i \div width = j \div width /\ (i - j = 1 \/ j - i = 1)
  \/ i - j = width
  \/ j - i = width

Grown(S, R, width) == S \cup {j \in R : \E i \in S : Adjacent(i, j, width)}

\* the pixels joined to a pixel of S by 4-neighbour steps through R
RECURSIVE Closure(_, _, _)
Closure(S, R, width) ==
  IF Grown(S, R, width) = S THEN S ELSE Closure(Grown(S, R, width), R, width)

ConnectedToBorder(canvas, R) ==
  Closure(R \cap BorderOf(canvas.width, canvas.height), R, canvas.width)

\* the pixels whose alpha the call set to 0
RemovedPixels == {i \in 0..(Len(visited) - 1) : visited[i + 1] = 1}

\* the buffer is the original one with alpha 0 at the pixels of S
ClearedExactly(S) ==
  /\ rcanvas.width = original.width
  /\ rcanvas.height = original.height
  /\ \A i \in 0..(Len(original.data) - 1) :
       rcanvas.data[i + 1] =
         IF i \in S
           THEN <<original.data[i + 1][1], original.data[i + 1][2],
                  original.data[i + 1][3], 0>>
           ELSE original.data[i + 1]

\* C8 as claimed: the pixels removed are exactly the pixels of alpha above 18
\* and colour within tolerance that a 4-neighbour path through such pixels
\* joins to such a pixel on the border.
C8_RemovesAlphaAbove18 ==
  FirstRunDone =>
    /\ RemovedPixels =
         ConnectedToBorder(original,
                           RemovableIn(original, rargs.color, rargs.tolerance,
                                       AlphaThreshold + 1))
    /\ ClearedExactly(RemovedPixels)

\* C8 as amended: the pixels removed are exactly the pixels of alpha 18 or
\* more and colour within tolerance that a 4-neighbour path through such
\* pixels joins to such a pixel on the border; no other pixel changes.
C8_RemovesBorderConnected ==
  FirstRunDone =>
    /\ RemovedPixels =
         ConnectedToBorder(original,
                           RemovableIn(original, rargs.color, rargs.tolerance,
                                       AlphaThreshold))
    /\ ClearedExactly(RemovedPixels)

\* a pixel of alpha exactly 18 was removed, and so was a pixel off the border
C8_Witness ==
  /\ FirstRunDone
  /\ \E i \in RemovedPixels : original.data[i + 1][4] = AlphaThreshold
  /\ RemovedPixels \ BorderOf(original.width, original.height) # {}

\* the region of matching pixels around pixel i
RegionOf(i) ==
  Closure({i}, MatchingIn(original, rargs.color, rargs.tolerance), original.width)

Enclosed(region) == region \cap BorderOf(original.width, original.height) = {}

\* C9: a region of matching pixels that no 4-neighbour path of matching
\* pixels joins to the border keeps the alpha of every one of its pixels.
C9_EnclosedRegionKept ==
  FirstRunDone =>
    \A i \in MatchingIn(original, rargs.color, rargs.tolerance) :
      Enclosed(RegionOf(i)) =>
        \A j \in RegionOf(i) : rcanvas.data[j + 1][4] = original.data[j + 1][4]

\* an opaque pixel of the target colour, enclosed, is still opaque
C9_Witness ==
  /\ FirstRunDone
  /\ \E i \in MatchingIn(original, rargs.color, rargs.tolerance) :
       /\ Enclosed(RegionOf(i))
       /\ original.data[i + 1][4] = 255
       /\ rcanvas.data[i + 1][4] = 255

\* C10: a second call with the same colour and tolerance on the buffer the
\* first call left finds no pixel to seed, and leaves the buffer as it was.
C10_Idempotent ==
  /\ (rpc = "loop" /\ runs = 1) => queue = <<>>
  /\ (rpc = "done" /\ runs = 2) => rcanvas = afterFirst

\* the first call removed something and the second has returned
C10_Witness ==
  /\ rpc = "done"
  /\ runs = 2
  /\ rargs.color # NoColor
  /\ afterFirst # original
  /\ rcanvas = afterFirst

\* C11: removeConnectedBackground keeps the buffer as it is while it fills;
\* when it returns, the red, green and blue of every pixel are those of the
\* original, no alpha is higher than the original's, and every pixel the fill
\* did not visit has its four channels unchanged.
C11_OnlyVisitedAlphaChanges ==
  /\ (rpc = "loop" /\ runs = 0) => rcanvas = original
  /\ (rpc = "done" /\ runs >= 1) =>
       /\ rcanvas.width = original.width
       /\ rcanvas.height = original.height
       /\ Len(rcanvas.data) = Len(original.data)
       /\ \A i \in 1..Len(original.data) :
            /\ rcanvas.data[i][1] = original.data[i][1]
            /\ rcanvas.data[i][2] = original.data[i][2]
            /\ rcanvas.data[i][3] = original.data[i][3]
            /\ rcanvas.data[i][4] <= original.data[i][4]
  /\ FirstRunDone =>
       \A i \in 1..Len(original.data) :
         visited[i] = 0 => rcanvas.data[i] = original.data[i]

\* a call that visited a coloured pixel and left another pixel unvisited
C11_Witness ==
  /\ FirstRunDone
  /\ \E i \in 1..Len(original.data) :
       visited[i] = 1 /\ original.data[i][1] > 0 /\ rcanvas.data[i][4] = 0
  /\ \E i \in 1..Len(original.data) :
       visited[i] = 0 /\ original.data[i][4] > 0

\* renders and direct calls of removeConnectedBackground together
NextAll == Next \/ CallRemove \/ CallRemoveAgain

SpecAll == Init /\ [][NextAll]_vars

(******************* properties of the null colour *************************)
\* C12: a call of removeConnectedBackground with a null colour returns at
\* once, raising nothing, with the buffer as it was handed in; a render with
\* removeBackground set and no dominant colour detected never calls it, and
\* returns the transparent fill with the source drawn on it.
C12_NullColourNoOp ==
  /\ (rargs # NoCall /\ rargs.color = NoColor) =>
       /\ rpc = "done"
       /\ rcanvas = original
       /\ pixels = <<>>
  /\ (rin # NoCall /\ rloc.removeBackground /\ rloc.dominantColor = NoColor) =>
       /\ rloc.outputBackground = CssTransparent
       /\ rargs = NoCall
       /\ rpc = "idle"
       /\ (Returned /\ HasPixels(rloc.size)) =>
            rout.blob =
              drawImage(fillOutputBackground(makeCanvas(rloc.size, rloc.size),
                                             rloc.size, CssTransparent),
                        rin.sourceCanvas, rloc.placement)

\* a source with nothing to sample, rendered with removeBackground: its
\* pixels are in the returned buffer, not punched out
C12_Witness ==
  /\ Returned
  /\ rloc.removeBackground
  /\ rloc.dominantColor = NoColor
  /\ HasPixels(rloc.size)
  /\ \E i \in 1..Len(rout.blob.data) : rout.blob.data[i][4] > 0

(**************** properties of the background punched out *****************)
\* the source pixel drawn at output pixel i, from 0, or -1 where none is
SourceIndexAt(i, cols, rows, sourceWidth) ==
  IF cols[(i % Len(cols)) + 1] < 0 \/ rows[(i \div Len(cols)) + 1] < 0 THEN -1
  ELSE (rows[(i \div Len(cols)) + 1] * sourceWidth) + cols[(i % Len(cols)) + 1]

\* the output pixels that show a pixel of the source set S
ShownIn(S, cols, rows, sourceWidth) ==
  {i \in 0..((Len(cols) * Len(cols)) - 1) :
     SourceIndexAt(i, cols, rows, sourceWidth) \in S}

\* the pixels of the source, of the detected colour within tolerance, that
\* belong to a region touching the source's border
SourceBackground ==
  ConnectedToBorder(rin.sourceCanvas,
                    RemovableIn(rin.sourceCanvas, rloc.dominantColor,
                                rloc.tolerance, AlphaThreshold))

\* C13: in a buffer returned with removeBackground set and a dominant colour
\* detected, every pixel of the placed image that belongs to a region of that
\* colour touching the source's border has alpha 0, for non-square sources
\* too.
C13_BorderRegionsPunchedOut ==
  (Returned /\ rloc.removeBackground /\ rloc.dominantColor # NoColor
     /\ HasPixels(rloc.size)) =>
    \A i \in ShownIn(SourceBackground,
                     axisMap(0, rloc.size, rin.sourceCanvas.width,
                             rloc.placement.x, rloc.placement.width,
                             rloc.placement.scale),
                     axisMap(0, rloc.size, rin.sourceCanvas.height,
                             rloc.placement.y, rloc.placement.height,
                             rloc.placement.scale),
                     rin.sourceCanvas.width) :
      rout.blob.data[i + 1][4] = 0

(************************ detectDominantBorderColor ************************)
\* Canvases handed to detectDominantBorderColor.  Their pixels: two colours
\* of one bin, a colour of the next bin, and two nearly transparent ones, at
\* the alpha threshold and just below it.
DetectPixels ==
  { <<100, 100, 100, 255>>,  \* bin (4, 4, 4)
    <<110, 101, 100, 255>>,  \* bin (4, 4, 4) too
    <<121, 100, 100, 255>>,  \* bin (5, 4, 4)
    <<50, 50, 50, 18>>,      \* bin (2, 2, 2), sampled
    <<0, 0, 0, 17>> }        \* not sampled

MaxDetectFull == 4  \* most pixels of a canvas whose pixels are all chosen freely
MaxDetectDim == 3   \* widest and tallest canvas of two pixel values
MaxDetectArea == 9  \* most pixels of such a canvas

DetectFullDims ==
  { wh \in (0..MaxDetectFull) \X (0..MaxDetectFull) : wh[1] * wh[2] <= MaxDetectFull }

DetectPairDims ==
  { wh \in (1..MaxDetectDim) \X (1..MaxDetectDim) : wh[1] * wh[2] <= MaxDetectArea }

\* canvases of one colour, one pixel thin and longer than twice SampleCap
LargeDims == { <<2 * SampleCap, 1>>, <<1, 2 * SampleCap>> }

DetectCanvases ==
  UNION { { Canvas(wh[1], wh[2], d) : d \in [1..(wh[1] * wh[2]) -> DetectPixels] }
          : wh \in DetectFullDims }
    \cup UNION { CanvasesOver(wh[1], wh[2], DetectPixels) : wh \in DetectPairDims }
    \cup { Canvas(wh[1], wh[2], [i \in 1..(wh[1] * wh[2]) |-> TargetPixel])
           : wh \in LargeDims }

\* the calls of addPixel the two loops make, none for a canvas turned away
walkedSamples(canvas) ==
  IF canvas.width <= 0 \/ canvas.height <= 0 THEN <<>>
  ELSE borderSamples(canvas.width, canvas.height,
                     sampleStep(canvas.width, canvas.height))

\* the guard of a canvas without pixels
guardedResult(canvas) ==
  IF canvas.width <= 0 \/ canvas.height <= 0 THEN NoColor ELSE NoCall

\* entry: the guard, the step and the empty Map
CallDetect ==
  /\ Idle
  /\ \E canvas \in DetectCanvases :
       /\ dcanvas' = canvas
       /\ dsamples' = walkedSamples(canvas)
       /\ dresult' = guardedResult(canvas)
  /\ dbins' = <<>>
  /\ dturn' = 0
  /\ UNCHANGED <<placementVars, renderVars, removeVars>>
  /\ UNCHANGED extractVars
  /\ UNCHANGED shellVars

\* one call of addPixel
DetectStep ==
  /\ dcanvas # NoCall
  /\ dresult = NoCall
  /\ dturn < Len(dsamples)
  /\ dbins' = addPixel(dbins, dcanvas.data, dcanvas.width,
                       dsamples[dturn + 1][1], dsamples[dturn + 1][2])
  /\ dturn' = dturn + 1
  /\ UNCHANGED <<dcanvas, dsamples, dresult, placementVars, renderVars, removeVars>>
  /\ UNCHANGED extractVars
  /\ UNCHANGED shellVars

\* the loop over bins.values() and the return
DetectReturn ==
  /\ dcanvas # NoCall
  /\ dresult = NoCall
  /\ dturn = Len(dsamples)
  /\ dresult' = dominantOf(dbins)
  /\ UNCHANGED <<dcanvas, dsamples, dbins, dturn, placementVars, renderVars, removeVars>>
  /\ UNCHANGED extractVars
  /\ UNCHANGED shellVars

NextDetect == CallDetect \/ DetectStep \/ DetectReturn

SpecDetect == Init /\ [][NextDetect]_vars

(*************** detectDominantBorderColor: what it returns ****************)
DetectReturned == dcanvas # NoCall /\ dresult # NoCall

\* the pixel of the k-th call of addPixel
SampleAt(k) == dcanvas.data[(dsamples[k][2] * dcanvas.width) + dsamples[k][1] + 1]

\* the calls of addPixel whose pixel is opaque enough to be counted
Counted == { k \in 1..Len(dsamples) : SampleAt(k)[4] >= 18 }

QuantizedTriple(p) == <<p[1] \div 24, p[2] \div 24, p[3] \div 24>>

MembersOf(triple) == { k \in Counted : QuantizedTriple(SampleAt(k)) = triple }

Triples == { QuantizedTriple(SampleAt(k)) : k \in Counted }

\* the sum of channel c over the calls in members, value by value
RECURSIVE WeightedSum(_, _, _)
WeightedSum(values, members, c) ==
  IF values = {} THEN 0
  ELSE LET v == CHOOSE u \in values : TRUE
       IN (v * Cardinality({ k \in members : SampleAt(k)[c] = v }))
            + WeightedSum(values \ {v}, members, c)

ChannelSum(members, c) == WeightedSum({ SampleAt(k)[c] : k \in members }, members, c)

\* n / d rounded to the nearest integer, halves upwards
IsRounded(q, n, d) == (2 * d * q) <= ((2 * n) + d) /\ ((2 * n) + d) < (2 * d * (q + 1))

IsAverageOf(color, members) ==
  /\ color.kind = "color"
  /\ IsRounded(color.r, ChannelSum(members, 1), Cardinality(members))
  /\ IsRounded(color.g, ChannelSum(members, 2), Cardinality(members))
  /\ IsRounded(color.b, ChannelSum(members, 3), Cardinality(members))

IsFullest(triple) ==
  \A other \in Triples : Cardinality(MembersOf(other)) <= Cardinality(MembersOf(triple))

\* C14: a colour detectDominantBorderColor returns is the rounded per-channel
\* average of the raw values of the counted samples (alpha >= 18) of one bin
\* of the quantized triples, a bin no other bin has more samples than; of
\* those samples and of no others.
C14_AverageOfFullestBin ==
  (DetectReturned /\ dresult # NoColor) =>
    \E triple \in Triples : IsFullest(triple) /\ IsAverageOf(dresult, MembersOf(triple))

\* a returned average that is neither a member of its bin nor the centre of
\* the bucket, with another bin present
C14_Witness ==
  /\ DetectReturned
  /\ dresult = Rgb(105, 101, 100)
  /\ Cardinality(Triples) >= 2

\* the bins no bin has more samples than
Fullest == { triple \in Triples : IsFullest(triple) }

Tied == DetectReturned /\ Cardinality(Fullest) >= 2

\* the call of addPixel that inserted the bin into the Map
InsertedAt(triple) == CHOOSE k \in MembersOf(triple) : \A j \in MembersOf(triple) : k <= j

\* the call of addPixel that brought the bin to its final count
CompletedAt(triple) == CHOOSE k \in MembersOf(triple) : \A j \in MembersOf(triple) : j <= k

FirstInserted == CHOOSE triple \in Fullest : \A other \in Fullest : InsertedAt(triple) <= InsertedAt(other)

FirstToReachMaximum == CHOOSE triple \in Fullest : \A other \in Fullest : CompletedAt(triple) <= CompletedAt(other)

\* C15 as stated: of the bins that end with the same highest count, the one
\* that was first to reach that count along the walk gives the result, however
\* the samples of the tied bins are interleaved.
C15_FirstToReachMaximumWins ==
  Tied => IsAverageOf(dresult, MembersOf(FirstToReachMaximum))

\* C15 amended: of the bins that end with the same highest count, the one that
\* was inserted first (whose first sample comes first along the walk) gives the
\* result, however the samples of the tied bins are interleaved.
C15_FirstInsertedWins ==
  Tied => IsAverageOf(dresult, MembersOf(FirstInserted))

\* a tie in which the bin inserted first is the last to reach the highest count
C15_Witness ==
  /\ Tied
  /\ FirstInserted # FirstToReachMaximum
  /\ IsAverageOf(dresult, MembersOf(FirstInserted))

Degenerate == dcanvas.width <= 0 \/ dcanvas.height <= 0

OnPerimeter(xy) ==
  \/ xy[1] = 0 \/ xy[1] = dcanvas.width - 1
  \/ xy[2] = 0 \/ xy[2] = dcanvas.height - 1

InteriorPixels ==
  { dcanvas.data[(y * dcanvas.width) + x + 1] :
      x \in 1..(dcanvas.width - 2), y \in 1..(dcanvas.height - 2) }

\* C16: detectDominantBorderColor samples perimeter pixels only; it returns
\* null when the buffer is degenerate (width <= 0 or height <= 0) or no sampled
\* pixel has alpha >= 18, and a colour whenever a sampled pixel has alpha >= 18.
C16_NullIffNothingCounted ==
  DetectReturned =>
    /\ \A k \in 1..Len(dsamples) : OnPerimeter(dsamples[k])
    /\ (Degenerate \/ Counted = {}) => dresult = NoColor
    /\ (~Degenerate /\ Counted # {}) => dresult.kind = "color"

\* null for a buffer whose perimeter is transparent and whose interior is opaque
C16_Witness ==
  /\ DetectReturned
  /\ ~Degenerate
  /\ dresult = NoColor
  /\ \E p \in InteriorPixels : p[4] >= 18

\* the positions visited along the top and bottom rows, and along the left
\* and right columns
RowPositions == { dsamples[k][1] : k \in { j \in 1..Len(dsamples) : dsamples[j][2] \in {0, dcanvas.height - 1} } }

ColumnPositions == { dsamples[k][2] : k \in { j \in 1..Len(dsamples) : dsamples[j][1] \in {0, dcanvas.width - 1} } }

\* C17: for every width and height the walk visits fewer than 480 positions
\* along the rows and fewer than 480 along the columns.
C17_FewerThan480PerEdge ==
  (dcanvas # NoCall /\ ~Degenerate) =>
    Cardinality(RowPositions) < 480 /\ Cardinality(ColumnPositions) < 480

(************************ extractPsdLayersToSquarePng ***********************)
MaxNodes == 4  \* most layers, groups included, of a document

\* the names groups carry: a safe one, and one that sanitizes to the same
GroupNames == { Given(<<"a">>), Given(<<"a", "/">>) }

Layer(name, children, content) ==
  [name |-> name, children |-> children, canvas |-> content.canvas,
   imageData |-> content.imageData, left |-> content.left, top |-> content.top]

\* what a layer without children carries: a canvas of one pixel, or nothing
RasterContent ==
  [canvas |-> Given(Canvas(1, 1, <<TargetPixel>>)), imageData |-> Absent,
   left |-> Absent, top |-> Absent]
NoContent == [canvas |-> Absent, imageData |-> Absent, left |-> Absent, top |-> Absent]

\* a canvas without columns; image data of one black pixel and no canvas; a
\* canvas of one pixel stored one column to the right
EmptyCanvasContent ==
  [canvas |-> Given(Canvas(0, 1, <<>>)), imageData |-> Absent,
   left |-> Absent, top |-> Absent]
ImageDataContent ==
  [canvas |-> Absent,
   imageData |-> Given([width |-> 1, height |-> 1, data |-> <<<<0, 0, 0, 255>>>>]),
   left |-> Absent, top |-> Absent]
ShiftedContent ==
  [canvas |-> Given(Canvas(1, 1, <<TargetPixel>>)), imageData |-> Absent,
   left |-> Given(1), top |-> Given(0)]

\* Layers without children.  The leaves of one document are BaseLeaf, which
\* has no name, and one of OtherLeaves: a leaf like it with a name, leaves
\* without pixels (nothing, an empty group, an empty canvas), and leaves with
\* other pixels.
BaseLeaf == Layer(Absent, Absent, RasterContent)
OtherLeaves ==
  { Layer(Given(<<"a">>), Absent, RasterContent),
    Layer(Given(<<"a">>), Absent, NoContent),
    Layer(Given(<<"a">>), Given(<<>>), NoContent),
    Layer(Given(<<"a">>), Absent, EmptyCanvasContent),
    Layer(Given(<<"a">>), Absent, ImageDataContent),
    Layer(Given(<<"a">>), Absent, ShiftedContent) }

\* A list of layers is drawn as its outline: the depth of every layer, in
\* document order, and what every layer is, a group's name or a leaf.
Outlines(n) ==
  { depth \in [1..n -> 1..n] :
      n > 0 => (depth[1] = 1 /\ \A i \in 2..n : depth[i] <= depth[i - 1] + 1) }

\* the layer at i of the outline has children
IsGroupAt(depth, i) == i < Len(depth) /\ depth[i + 1] = depth[i] + 1

\* what the layers from i on are
RECURSIVE Fillings(_, _, _)
Fillings(depth, i, leaves) ==
  IF i > Len(depth) THEN { <<>> }
  ELSE { <<what>> \o rest :
           what \in (IF IsGroupAt(depth, i) THEN GroupNames ELSE leaves),
           rest \in Fillings(depth, i + 1, leaves) }

\* the last layer of the outline that lies below the layer at i, or i
LastBelow(depth, i) ==
  Max2(i, Cardinality({ j \in (i + 1)..Len(depth) :
                          \A k \in (i + 1)..j : depth[k] > depth[i] }) + i)

\* the list of layers that starts at i of the outline and ends at last
RECURSIVE LayersFrom(_, _, _, _)
LayersFrom(depth, what, i, last) ==
  IF i > last THEN <<>>
  ELSE <<IF IsGroupAt(depth, i)
           THEN Layer(what[i], Given(LayersFrom(depth, what, i + 1, LastBelow(depth, i))), NoContent)
           ELSE what[i]>>
       \o LayersFrom(depth, what, LastBelow(depth, i) + 1, last)

PsdOf(width, height, children) == [width |-> width, height |-> height, children |-> children]

\* a PSD file whose document, of 2 x 1 pixels, has these layers
DocumentFile(layers) == [isPsd |-> TRUE, psd |-> PsdOf(2, 1, Given(layers))]

\* the files without a tree of layers: one that is no PSD, and PSD files for
\* which readPsd returns nothing, a psd without a width, a psd without children
OtherFiles ==
  { [isPsd |-> FALSE, psd |-> NoPsd],
    [isPsd |-> TRUE, psd |-> NoPsd],
    [isPsd |-> TRUE,
     psd |-> PsdOf(0, 1, Given(<<BaseLeaf>>))],
    [isPsd |-> TRUE, psd |-> PsdOf(2, 1, Absent)] }

ExtractOptions ==
  { [size |-> Given(2), removeBackground |-> FALSE, generateBackground |-> FALSE,
     background |-> Absent, backgroundTolerance |-> Absent] }

Error(message) == [kind |-> "throw", message |-> message]

\* the check of layers.length left out
extractEntryUnchecked(file) ==
  IF ~file.isPsd
    THEN Error("La extraccion por capas solo aplica a archivos PSD.")
  ELSE IF file.psd = NoPsd THEN Error("No se pudo leer el PSD.")
  ELSE IF file.psd.width = 0 \/ file.psd.height = 0
    THEN Error("No se pudo leer el PSD.")
  ELSE [kind |-> "pending"]

\* up to the loop: the three throws, or layers
extractEntry(file) ==
  IF ~file.isPsd
    THEN Error("La extraccion por capas solo aplica a archivos PSD.")
  ELSE IF file.psd = NoPsd THEN Error("No se pudo leer el PSD.")
  ELSE IF file.psd.width = 0 \/ file.psd.height = 0
    THEN Error("No se pudo leer el PSD.")
  ELSE IF Len(collectPsdLayers(file.psd)) = 0
    THEN Error("El PSD no tiene capas rasterizables para extraer.")
  ELSE [kind |-> "pending"]

StartExtract(file, options) ==
  \E entry \in {extractEntry(file)} :
    /\ xin' = [kind |-> "call", file |-> file, options |-> options]
    /\ xout' = entry
    /\ xlayers' = IF entry.kind = "pending" THEN collectPsdLayers(file.psd) ELSE <<>>

\* a call with one of OtherFiles, or with a document of up to MaxNodes layers
CallExtract ==
  /\ Idle
  /\ \E options \in ExtractOptions :
       \/ \E file \in OtherFiles : StartExtract(file, options)
       \/ \E n \in 0..MaxNodes : \E depth \in Outlines(n) :
          \E other \in OtherLeaves : \E what \in Fillings(depth, 1, {BaseLeaf, other}) :
          \E file \in {DocumentFile(LayersFrom(depth, what, 1, n))} :
            StartExtract(file, options)
  /\ xindex' = 0
  /\ xresults' = <<>>
  /\ UNCHANGED <<placementVars, renderVars, removeVars, detectVars>>
  /\ UNCHANGED shellVars

Looping == xin # NoCall /\ xout.kind = "pending"

\* await renderCanvasToSquare(layer.canvas, options): the call
ExtractRender ==
  /\ Looping
  /\ rin = NoCall
  /\ xindex < Len(xlayers)
  /\ \E source \in {xlayers[xindex + 1].canvas}, options \in {xin.options} :
       StartRender(source, options)
  /\ UNCHANGED <<placementVars, rargs, pixels, visited, queue, pointer, rpc, runs,
                 original, afterFirst, detectVars, extractVars>>
  /\ UNCHANGED shellVars

\* await renderCanvasToSquare(layer.canvas, options): its outcome, a throw
\* rejecting the extraction, a result pushed with layerName and layerIndex
ExtractPush ==
  /\ Looping
  /\ rin # NoCall
  /\ rloc.at \in {"threw", "returned"}
  /\ IF rout.kind = "throw"
       THEN /\ xout' = rout
            /\ UNCHANGED <<xresults, xindex>>
       ELSE /\ xresults' = Append(xresults,
                                  [rendered |-> rout,
                                   layerName |-> xlayers[xindex + 1].name,
                                   layerIndex |-> xindex])
            /\ xindex' = xindex + 1
            /\ UNCHANGED xout
  /\ rin' = NoCall /\ rloc' = NoCall /\ rout' = NoCall
  /\ rargs' = NoCall /\ rcanvas' = NoCall /\ pixels' = <<>> /\ visited' = <<>>
  /\ queue' = <<>> /\ pointer' = 0 /\ rpc' = "idle" /\ runs' = 0
  /\ original' = NoCall /\ afterFirst' = NoCall
  /\ UNCHANGED <<placementVars, detectVars, xin, xlayers>>
  /\ UNCHANGED shellVars

ExtractReturn ==
  /\ Looping
  /\ rin = NoCall
  /\ xindex = Len(xlayers)
  /\ xout' = [kind |-> "result", results |-> xresults]
  /\ UNCHANGED <<placementVars, renderVars, removeVars, detectVars, xin, xlayers,
                 xindex, xresults>>
  /\ UNCHANGED shellVars

NextLayers ==
  \/ CallExtract
  \/ ExtractRender
  \/ RenderDraw
  \/ RenderReturn
  \/ ExtractPush
  \/ ExtractReturn

SpecLayers == Init /\ [][NextLayers]_vars

(******************** properties of the layer extraction *******************)
\* the call read a document: a PSD file whose psd has a width and a height
ReadDocument ==
  /\ xin # NoCall
  /\ xin.file.isPsd
  /\ xin.file.psd # NoPsd
  /\ xin.file.psd.width > 0
  /\ xin.file.psd.height > 0

TopLayers == IF xin.file.psd.children = Absent THEN <<>> ELSE xin.file.psd.children.value

ChildrenOf(layer) == IF layer.children = Absent THEN <<>> ELSE layer.children.value

\* An address is the sequence of positions leading from the top layers to a
\* layer; AddressesIn is the set of addresses of the layers of a list.
RECURSIVE AddressesIn(_)
AddressesIn(layers) ==
  UNION { {<<i>>} \cup { <<i>> \o below : below \in AddressesIn(ChildrenOf(layers[i])) }
          : i \in 1..Len(layers) }

RECURSIVE LayerAt(_, _)
LayerAt(layers, address) ==
  IF Len(address) = 1 THEN layers[address[1]]
  ELSE LayerAt(ChildrenOf(layers[address[1]]), Tail(address))

HasPixelData(layer) ==
  \/ layer.canvas # Absent /\ layer.canvas.value.width > 0 /\ layer.canvas.value.height > 0
  \/ /\ layer.canvas = Absent
     /\ layer.imageData # Absent
     /\ layer.imageData.value.width > 0
     /\ layer.imageData.value.height > 0

IsUsableLeaf(layer) == ChildrenOf(layer) = <<>> /\ HasPixelData(layer)

UsableLeaves == { address \in AddressesIn(TopLayers) : IsUsableLeaf(LayerAt(TopLayers, address)) }

EmptyDocumentError == [kind |-> "throw", message |-> "El PSD no tiene capas rasterizables para extraer."]

Settled == xin # NoCall /\ xout.kind \in {"throw", "result"}

\* C18: a call of extractPsdLayersToSquarePng that read a document fails with
\* the empty-document error exactly when no layer of the tree, at any depth,
\* is a leaf with usable pixel data, and then it has produced no result; no
\* other call fails with that error.
C18_EmptyDocumentIffNoUsableLeaf ==
  /\ (Settled /\ ReadDocument) => (xout = EmptyDocumentError <=> UsableLeaves = {})
  /\ (xin # NoCall /\ xout = EmptyDocumentError) => (ReadDocument /\ xresults = <<>>)

\* the error for a document of groups that hold no usable leaf at depth two
C18_Witness ==
  /\ Settled
  /\ ReadDocument
  /\ xout = EmptyDocumentError
  /\ \E address \in AddressesIn(TopLayers) : Len(address) >= 2

\* document order of two addresses of which neither leads to the other
RECURSIVE Precedes(_, _)
Precedes(a, b) ==
  IF a = <<>> \/ b = <<>> THEN FALSE
  ELSE IF a[1] # b[1] THEN a[1] < b[1]
  ELSE Precedes(Tail(a), Tail(b))

\* how many of the leaves come before the one at address, in document order
RankIn(leaves, address) == Cardinality({ other \in leaves : Precedes(other, address) })

\* the addresses of the layer's ancestors, outermost first, and its own
PathTo(address) == [d \in 1..Len(address) |-> SubSeq(address, 1, d)]

\* the sanitized name of the layer at address: its position in the list it is
\* in gives the fallback
SanitizedAt(address) ==
  sanitizeLayerName(LayerAt(TopLayers, address).name, address[Len(address)] - 1)

RECURSIVE JoinedNames(_, _)
JoinedNames(path, d) ==
  IF d > Len(path) THEN <<>>
  ELSE IF d = Len(path) THEN SanitizedAt(path[d])
  ELSE SanitizedAt(path[d]) \o <<"_", "_">> \o JoinedNames(path, d + 1)

ExpectedName(address) == JoinedNames(PathTo(address), 1)

Collected == ReadDocument /\ xout.kind \in {"pending", "result"}

\* C19: collectPsdLayers lists one layer per usable leaf, the leaf that k
\* usable leaves precede in document order (descendants of a group before its
\* later siblings) at position k; the results of extractPsdLayersToSquarePng
\* follow that list, the k-th carrying layerIndex k and the leaf's name, and
\* a returned list of results has one result per usable leaf.
C19_OneResultPerLeafInDocumentOrder ==
  Collected =>
    /\ \A leaves \in {UsableLeaves} :
         /\ Len(xlayers) = Cardinality(leaves)
         /\ \A address \in leaves :
              xlayers[RankIn(leaves, address) + 1].name = ExpectedName(address)
    /\ \A k \in 1..Len(xresults) :
         /\ xresults[k].layerIndex = k - 1
         /\ xresults[k].layerName = xlayers[k].name
    /\ xout.kind = "result" =>
         /\ xout.results = xresults
         /\ Len(xresults) = Len(xlayers)

\* results returned for a group's two leaves and a later sibling of the group
C19_Witness ==
  /\ Collected
  /\ xout.kind = "result"
  /\ {<<1, 1>>, <<1, 2>>, <<2>>} \subseteq UsableLeaves
  /\ Len(xout.results) = 3

\* the address of the group a layer lies in (empty for a top layer)
GroupOf(address) == SubSeq(address, 1, Len(address) - 1)

\* the name given to each of the leaves
NamesGiven(leaves) == [address \in leaves |-> xlayers[RankIn(leaves, address) + 1].name]

\* the joined sanitized names of the layer's ancestors
PrefixOf(address) ==
  IF Len(address) = 1 THEN <<>> ELSE ExpectedName(GroupOf(address))

\* of each of the leaves: its own sanitized name, and that prefix
OwnNames(leaves) == [address \in leaves |-> SanitizedAt(address)]
Prefixes(leaves) == [address \in leaves |-> PrefixOf(address)]

\* C20 as stated: a leaf's name is the sanitized names of its ancestors and
\* its own joined with "__", and two usable leaves of one document that lie in
\* different groups are given different names.
C20_DifferentGroupsDifferentNames ==
  Collected =>
    \A leaves \in {UsableLeaves} : \A given \in {NamesGiven(leaves)} :
      /\ \A address \in leaves : given[address] = ExpectedName(address)
      /\ \A a, b \in leaves : GroupOf(a) # GroupOf(b) => given[a] # given[b]

\* C20 amended: a leaf's name is the sanitized names of its ancestors and its
\* own joined with "__"; two usable leaves with the same sanitized name of
\* their own are given different names exactly when the joined sanitized
\* names of their ancestors differ.
C20_PrefixDistinguishes ==
  Collected =>
    \A leaves \in {UsableLeaves} :
    \A given \in {NamesGiven(leaves)}, own \in {OwnNames(leaves)},
       prefix \in {Prefixes(leaves)} :
      /\ \A address \in leaves : given[address] = ExpectedName(address)
      /\ \A a, b \in leaves :
           own[a] = own[b] => (given[a] # given[b] <=> prefix[a] # prefix[b])

\* two leaves of the same sanitized name in two groups whose different names
\* sanitize to the same: one name for both
C20_Witness ==
  /\ Collected
  /\ \E leaves \in {UsableLeaves} : \E given \in {NamesGiven(leaves)} :
     \E a, b \in leaves :
       /\ GroupOf(a) # GroupOf(b)
       /\ Len(a) = 2 /\ Len(b) = 2
       /\ SanitizedAt(a) = SanitizedAt(b)
       /\ LayerAt(TopLayers, GroupOf(a)).name # LayerAt(TopLayers, GroupOf(b)).name
       /\ given[a] = given[b]

\* the layers without children, and those of them that are skipped
AllLeaves == { address \in AddressesIn(TopLayers) : ChildrenOf(LayerAt(TopLayers, address)) = <<>> }

SkippedLeaves == { address \in AllLeaves : ~HasPixelData(LayerAt(TopLayers, address)) }

\* the same layers, every leaf without pixel data given a canvas of one pixel
RECURSIVE WithPixelData(_)
WithPixelData(layers) ==
  [i \in 1..Len(layers) |->
     IF ChildrenOf(layers[i]) # <<>>
       THEN [layers[i] EXCEPT !.children = Given(WithPixelData(ChildrenOf(layers[i])))]
     ELSE IF HasPixelData(layers[i]) THEN layers[i]
     ELSE [layers[i] EXCEPT !.canvas = Given(Canvas(1, 1, <<TargetPixel>>))]]

\* what collectPsdLayers lists for the document when none of its leaves is skipped
ListedWithoutSkip ==
  collectPsdLayers(PsdOf(xin.file.psd.width, xin.file.psd.height,
                         Given(WithPixelData(TopLayers))))

PixelDataOf(layer) == IF layer.canvas # Absent THEN layer.canvas.value ELSE layer.imageData.value

StoredLeft(layer) == IF layer.left = Absent THEN 0 ELSE layer.left.value
StoredTop(layer) == IF layer.top = Absent THEN 0 ELSE layer.top.value

\* what the buffer of a leaf holds at column x and row y of the document
ExpectedAt(layer, x, y) ==
  IF /\ x - StoredLeft(layer) \in 0..(PixelDataOf(layer).width - 1)
     /\ y - StoredTop(layer) \in 0..(PixelDataOf(layer).height - 1)
    THEN PixelDataOf(layer).data[((y - StoredTop(layer)) * PixelDataOf(layer).width)
                                   + (x - StoredLeft(layer)) + 1]
    ELSE <<0, 0, 0, 0>>

IsDocumentBuffer(buffer, layer) ==
  /\ buffer.width = xin.file.psd.width
  /\ buffer.height = xin.file.psd.height
  /\ Len(buffer.data) = xin.file.psd.width * xin.file.psd.height
  /\ \A x \in 0..(xin.file.psd.width - 1), y \in 0..(xin.file.psd.height - 1) :
       buffer.data[(y * xin.file.psd.width) + x + 1] = ExpectedAt(layer, x, y)

\* C22: the buffer collectPsdLayers makes for a leaf has the document's width
\* and height and is transparent except for the leaf's pixels at the leaf's
\* (left, top); the results of one document all carry the same placement and
\* the document's size as source size.
C22_DocumentSizedBuffersSamePlacement ==
  Collected =>
    /\ \A usable \in {UsableLeaves} : \A address \in usable :
         IsDocumentBuffer(xlayers[RankIn(usable, address) + 1].canvas,
                          LayerAt(TopLayers, address))
    /\ \A j, k \in 1..Len(xresults) :
         /\ xresults[j].rendered.placement = xresults[k].rendered.placement
         /\ xresults[k].rendered.sourceWidth = xin.file.psd.width
         /\ xresults[k].rendered.sourceHeight = xin.file.psd.height

\* results returned for a leaf stored at the corner and a leaf stored one
\* column to the right
C22_Witness ==
  /\ Collected
  /\ xout.kind = "result"
  /\ Len(xresults) >= 2
  /\ \E a, b \in UsableLeaves :
       /\ StoredLeft(LayerAt(TopLayers, a)) = 0
       /\ StoredLeft(LayerAt(TopLayers, b)) = 1

\* a flood fill has been started on the canvas and has not been replaced
Flooding == rpc = "loop" \/ (rpc = "done" /\ rargs # NoCall /\ rargs.color # NoColor)

PixelCount == rcanvas.width * rcanvas.height

EnqueuedAtMostOnce == \A j, k \in 1..Len(queue) : queue[j] = queue[k] => j = k

VisitedWhenEnqueued ==
  \A index \in 0..(PixelCount - 1) :
    visited[index + 1] = 1 <=> \E k \in 1..Len(queue) : queue[k] = index

FloodBounded ==
  Flooding =>
    /\ VisitedWhenEnqueued
    /\ EnqueuedAtMostOnce
    /\ Len(queue) <= PixelCount
    /\ pointer <= Len(queue)

\* C25: the flood fill terminates: an index is marked visited exactly when it
\* is pushed on the queue, no index is pushed twice, the queue never holds
\* more than width x height indices, the pointer never passes the end of the
\* queue, and a loop that has been entered is left.
C25_FloodFillTerminates ==
  /\ []FloodBounded
  /\ (rpc = "loop") ~> (rpc = "done")

\* a fill that has dequeued every pixel of a canvas of four pixels or more
C25_Witness ==
  /\ rpc = "done"
  /\ Flooding
  /\ PixelCount >= 4
  /\ pointer = PixelCount
  /\ Len(queue) = PixelCount

IsByte(value) == value \in 0..255

\* the two digits toHexColor writes for a channel give the channel back
WrittenUnclamped(color) ==
  ParseCssHex(toHexColor(color)) = <<color.r, color.g, color.b, 255>>

\* C26: a colour detectDominantBorderColor returns has integer channels in
\* 0..255, each in the quantization interval of the winning bin (the channel
\* divided by 24, rounded down, is the bin's key for that channel), so that
\* toHexColor writes the channels as they are, without clamping.
C26_AverageInsideWinningBin ==
  (DetectReturned /\ dresult # NoColor) =>
    /\ IsByte(dresult.r) /\ IsByte(dresult.g) /\ IsByte(dresult.b)
    /\ <<dresult.r \div 24, dresult.g \div 24, dresult.b \div 24>> = FirstInserted
    /\ WrittenUnclamped(dresult)

\* a returned colour whose red is the red of no sample, with a second bin
\* on the border
C26_Witness ==
  /\ DetectReturned
  /\ dresult # NoColor
  /\ Cardinality(Triples) >= 2
  /\ \A k \in Counted : SampleAt(k)[1] # dresult.r


(********************** file names (imageProcessing.js) ********************)
UpperCase ==
  <<"A", "B", "C", "D", "E", "F", "G", "H", "I", "J", "K", "L", "M", "N", "O", "P",
    "Q", "R", "S", "T", "U", "V", "W", "X", "Y", "Z">>
LowerCase ==
  <<"a", "b", "c", "d", "e", "f", "g", "h", "i", "j", "k", "l", "m", "n", "o", "p",
    "q", "r", "s", "t", "u", "v", "w", "x", "y", "z">>

lowerOf(c) ==
  IF \E i \in 1..Len(UpperCase) : UpperCase[i] = c
    THEN LowerCase[CHOOSE i \in 1..Len(UpperCase) : UpperCase[i] = c]
    ELSE c

toLowerCase(s) == [i \in 1..Len(s) |-> lowerOf(s[i])]

\* filename.lastIndexOf("."), positions counted from 1: 0 for -1
lastIndexOfDot(s) ==
  IF \E i \in 1..Len(s) : s[i] = "."
    THEN CHOOSE i \in 1..Len(s) : s[i] = "." /\ \A j \in (i + 1)..Len(s) : s[j] # "."
    ELSE 0

getExtension(filename) ==
  IF lastIndexOfDot(filename) = 0 THEN <<>>
  ELSE toLowerCase(SubSeq(filename, lastIndexOfDot(filename), Len(filename)))

PsdExtension == <<".", "p", "s", "d">>

SUPPORTED_EXTENSIONS ==
  { <<".", "p", "n", "g">>, <<".", "j", "p", "g">>, <<".", "j", "p", "e", "g">>,
    <<".", "w", "e", "b", "p">>, <<".", "t", "i", "f">>, <<".", "t", "i", "f", "f">>,
    PsdExtension }

isSupportedFile(file) == getExtension(file.name) \in SUPPORTED_EXTENSIONS

isPsdFile(file) == getExtension(file.name) = PsdExtension

toBaseName(filename) ==
  IF lastIndexOfDot(filename) = 0 THEN filename
  ELSE SubSeq(filename, 1, lastIndexOfDot(filename) - 1)

(********************************* fileUtils ********************************)
\* the registry is the Map in insertion order: one [key, value] per name
registryHas(registry, key) == \E i \in 1..Len(registry) : registry[i].key = key

registryGet(registry, key) ==
  registry[CHOOSE i \in 1..Len(registry) : registry[i].key = key].value

registrySet(registry, key, value) ==
  IF registryHas(registry, key)
    THEN [i \in 1..Len(registry) |->
            IF registry[i].key = key THEN [key |-> key, value |-> value]
            ELSE registry[i]]
    ELSE Append(registry, [key |-> key, value |-> value])

DotPng == <<".", "p", "n", "g">>

\* the name returned and the registry as the call leaves it
nextName(base, registry, overwriteDuplicates) ==
  IF overwriteDuplicates
    THEN [name |-> base \o DotPng, registry |-> registrySet(registry, base \o DotPng, 1)]
  ELSE IF ~registryHas(registry, base \o DotPng)
    THEN [name |-> base \o DotPng, registry |-> registrySet(registry, base \o DotPng, 1)]
  ELSE [name |-> base \o <<"_">>
                   \o decimal(registryGet(registry, base \o DotPng) + 1) \o DotPng,
        registry |-> registrySet(registry, base \o DotPng,
                                 registryGet(registry, base \o DotPng) + 1)]

orArchivo(safe) == IF safe = <<>> THEN <<"a", "r", "c", "h", "i", "v", "o">> ELSE safe

sanitizeStem(stem) == orArchivo(safeOf(stem))

buildOutputName(originalName, registry, overwriteDuplicates) ==
  nextName(sanitizeStem(toBaseName(originalName)) \o <<"_">> \o decimal(TARGET_SIZE),
           registry, overwriteDuplicates)

buildOutputNameFromStem(stem, registry, overwriteDuplicates) ==
  nextName(sanitizeStem(stem) \o <<"_">> \o decimal(TARGET_SIZE),
           registry, overwriteDuplicates)

makeLayerStem(fileName, layerName) ==
  sanitizeStem(toBaseName(fileName)) \o <<"_">> \o sanitizeStem(layerName)

\* the object URL is not modelled
createOutput(name, blob) == [name |-> name, blob |-> blob]

clearOutputs(item) == [item EXCEPT !.outputs = <<>>]

(************************ processToSquarePng (composite) *******************)
\* What a file holds is body: a bitmap createImageBitmap decodes to, a
\* document readPsd decodes to, or bytes neither of them reads.  A document
\* is [width, height, canvas, imageData, children], a width or height of 0
\* standing for one that is missing.
IsThrow(value) == "kind" \in DOMAIN value /\ value.kind = "throw"

messageOf(thrown) == IF "message" \in DOMAIN thrown THEN thrown.message ELSE thrown.error

\* what createImageBitmap and readPsd raise on bytes they cannot read
DecodeError == Error("The source image could not be decoded.")

\* a document without composite given an empty canvas, no error raised
buildCanvasFromPsdLenient(psd) ==
  IF psd = NoPsd THEN Canvas(0, 0, <<>>)
  ELSE IF psd.canvas # Absent THEN psd.canvas.value
  ELSE IF psd.imageData # Absent THEN buildCanvasFromImageData(psd.imageData)
  ELSE Canvas(psd.width, psd.height, <<>>)

buildCanvasFromPsd(psd) ==
  IF psd = NoPsd THEN Error("PSD invalido: no contiene dimensiones.")
  ELSE IF psd.width = 0 \/ psd.height = 0
    THEN Error("PSD invalido: no contiene dimensiones.")
  ELSE IF psd.canvas # Absent THEN psd.canvas.value
  ELSE IF buildCanvasFromImageData(psd.imageData) # NoCanvas
    THEN buildCanvasFromImageData(psd.imageData)
  ELSE Error("No se pudo leer la vista compuesta del PSD. Guarda el PSD con compatibilidad maxima.")

loadPsdCompositeCanvas(file) ==
  IF file.body.kind # "psd" THEN DecodeError ELSE buildCanvasFromPsd(file.body.psd)

loadRasterAsCanvas(file) ==
  IF file.body.kind # "bitmap" THEN DecodeError
  ELSE Canvas(file.body.width, file.body.height, <<>>)

loadSourceCanvas(file) ==
  IF isPsdFile(file) THEN loadPsdCompositeCanvas(file) ELSE loadRasterAsCanvas(file)

\* renderCanvasToSquare as its caller sees it: the throw of
\* computeContainPlacement, or the blob with the size of the source
renderedOf(sourceCanvas, options) ==
  IF computeContainPlacement(sourceCanvas.width, sourceCanvas.height,
                             resolveSize(options)).kind = "throw"
    THEN Error(InvalidDimensions)
    ELSE [kind |-> "result",
          blob |-> [type |-> "image/png", size |-> resolveSize(options)],
          sourceWidth |-> sourceCanvas.width,
          sourceHeight |-> sourceCanvas.height]

\* the await of loadSourceCanvas rejects, or renderCanvasToSquare is called
renderLoaded(sourceCanvas, options) ==
  IF IsThrow(sourceCanvas) THEN sourceCanvas ELSE renderedOf(sourceCanvas, options)

processToSquarePng(file, options) == renderLoaded(loadSourceCanvas(file), options)

(********************************** App.jsx *********************************)
\* A file is [name, lastModified, size, body]; an item is what createItem
\* makes of it, its id the fingerprint and a random UUID, here uuid.
fingerprintOf(file) ==
  file.name \o <<"-">> \o decimal(file.lastModified) \o <<"-">> \o decimal(file.size)

itemOf(file, fingerprint, uuid) ==
  [id |-> [fingerprint |-> fingerprint, uuid |-> uuid],
   fingerprint |-> fingerprint,
   file |-> file,
   status |-> "pendiente",
   message |-> NoLine,
   outputs |-> <<>>,
   sourceWidth |-> 0,
   sourceHeight |-> 0]

createItem(file, uuid) == itemOf(file, fingerprintOf(file), uuid)

\* incoming.filter(isSupportedFile)
RECURSIVE supportedOf(_)
supportedOf(incoming) ==
  IF incoming = <<>> THEN <<>>
  ELSE IF isSupportedFile(Head(incoming))
    THEN <<Head(incoming)>> \o supportedOf(Tail(incoming))
  ELSE supportedOf(Tail(incoming))

\* the fingerprint of a file pushed is not added to the set
RECURSIVE newItemsOfUnrecorded(_, _, _)
newItemsOfUnrecorded(supported, fingerprints, uuid) ==
  IF supported = <<>> THEN <<>>
  ELSE IF fingerprintOf(Head(supported)) \in fingerprints
    THEN newItemsOfUnrecorded(Tail(supported), fingerprints, uuid)
  ELSE <<createItem(Head(supported), uuid)>>
         \o newItemsOfUnrecorded(Tail(supported), fingerprints, uuid + 1)

\* the loop over supported: newItems, the first of them given uuid
RECURSIVE newItemsOf(_, _, _)
newItemsOf(supported, fingerprints, uuid) ==
  IF supported = <<>> THEN <<>>
  ELSE IF fingerprintOf(Head(supported)) \in fingerprints
    THEN newItemsOf(Tail(supported), fingerprints, uuid)
  ELSE <<createItem(Head(supported), uuid)>>
         \o newItemsOf(Tail(supported),
                       fingerprints \cup {fingerprintOf(Head(supported))}, uuid + 1)

\* The handlers are written on state: [items, app, run], and what the
\* handler returned, if anything, as field returned.
\* setItems(mergedItems) and the return of appendFiles
appendedWith(state, newItems) ==
  [items |-> state.items \o newItems,
   app |-> state.app,
   run |-> state.run,
   returned |-> [addedItems |-> newItems, mergedItems |-> state.items \o newItems]]

\* appendFiles(fileList), explicitBaseItems left null as every caller does
appendFiles(state, incoming, uuid) ==
  IF incoming = <<>>
    THEN [state EXCEPT !.returned = [addedItems |-> <<>>, mergedItems |-> state.items]]
  ELSE appendedWith(state,
         newItemsOf(supportedOf(incoming),
                    { state.items[i].fingerprint : i \in 1..Len(state.items) },
                    uuid))

\* removeBackground, generateDominantBackground and fallbackBackground as
\* useState initialises them
processingOptions ==
  [size |-> Given(AppSize), removeBackground |-> FALSE, generateBackground |-> TRUE,
   background |-> Given(CssHex(<<15, 15, 15, 15, 15, 15>>)),
   backgroundTolerance |-> Given(RenderTolerance)]

\* results.push of one turn of the loop, the turns after it done
pushedResult(rendered, layer, index, rest) ==
  IF rendered.kind = "throw" THEN rendered
  ELSE IF rest.kind = "throw" THEN rest
  ELSE [kind |-> "result",
        results |-> <<[rendered |-> rendered, layerName |-> layer.name,
                       layerIndex |-> index - 1]>> \o rest.results]

\* the loop of extractPsdLayersToSquarePng from layers[index] on: the
\* results, or the first throw of a render
RECURSIVE layerResultsOf(_, _, _)
layerResultsOf(layers, index, options) ==
  IF index > Len(layers) THEN [kind |-> "result", results |-> <<>>]
  ELSE pushedResult(renderedOf(layers[index].canvas, options), layers[index], index,
                    layerResultsOf(layers, index + 1, options))

\* after the two throws of the entry: collectPsdLayers and the loop
extractedAfter(entry, psd, options) ==
  IF entry.kind = "throw" THEN entry
  ELSE layerResultsOf(collectPsdLayers(psd), 1, options)

extractPsdLayersToSquarePng(file, options) ==
  IF file.body.kind # "psd" THEN DecodeError
  ELSE extractedAfter(extractEntry([isPsd |-> isPsdFile(file), psd |-> file.body.psd]),
                      file.body.psd, options)

\* outputs.push of one turn of the loop, the turns after it done
pushedOutput(output, rest) ==
  [outputs |-> <<output>> \o rest.outputs, registry |-> rest.registry]

\* the loop over layerResults: outputs, and the registry as it leaves it
RECURSIVE layerOutputs(_, _, _, _, _)
layerOutputsNamed(fileName, layerResults, index, named, overwriteDuplicates) ==
  pushedOutput(createOutput(named.name, layerResults[index].rendered.blob),
               layerOutputs(fileName, layerResults, index + 1, named.registry,
                            overwriteDuplicates))

layerOutputs(fileName, layerResults, index, registry, overwriteDuplicates) ==
  IF index > Len(layerResults) THEN [outputs |-> <<>>, registry |-> registry]
  ELSE layerOutputsNamed(fileName, layerResults, index,
         buildOutputNameFromStem(makeLayerStem(fileName, layerResults[index].layerName),
                                 registry, overwriteDuplicates),
         overwriteDuplicates)

\* the return of the branch of the layers
layersReturned(first, made) ==
  [kind |-> "result",
   outputs |-> made.outputs,
   sourceWidth |-> first.sourceWidth,
   sourceHeight |-> first.sourceHeight,
   registry |-> made.registry]

layersProcessed(file, extracted, registry, flags) ==
  IF extracted.kind = "throw" THEN extracted
  ELSE layersReturned(extracted.results[1].rendered,
                      layerOutputs(file.name, extracted.results, 1, registry,
                                   flags.overwriteDuplicates))

\* the return of the other branch
singleReturned(single, named) ==
  [kind |-> "result",
   outputs |-> <<createOutput(named.name, single.blob)>>,
   sourceWidth |-> single.sourceWidth,
   sourceHeight |-> single.sourceHeight,
   registry |-> named.registry]

singleProcessed(file, single, registry, flags) ==
  IF IsThrow(single) THEN single
  ELSE singleReturned(single,
                      buildOutputName(file.name, registry, flags.overwriteDuplicates))

\* processItemOutputs(file, registry): what it resolves with and the
\* registry as it leaves it, or what it rejects with
processItemOutputs(file, registry, flags) ==
  IF flags.extractPsdLayers /\ isPsdFile(file)
    THEN layersProcessed(file, extractPsdLayersToSquarePng(file, processingOptions),
                         registry, flags)
    ELSE singleProcessed(file, processToSquarePng(file, processingOptions),
                         registry, flags)

\* the indexes of the items of working that are targets, in list order
\* (counted from 1 here, from 0 in the code)
RECURSIVE targetIndexesOf(_, _, _)
targetIndexesOf(working, targetIds, index) ==
  IF index > Len(working) THEN <<>>
  ELSE (IF targetIds = Absent THEN <<index>>
        ELSE IF working[index].id \in targetIds.value THEN <<index>>
        ELSE <<>>)
       \o targetIndexesOf(working, targetIds, index + 1)

\* registry.set(output.name, 1) for each of outputs
RECURSIVE setEach(_, _)
setEach(registry, outputs) ==
  IF outputs = <<>> THEN registry
  ELSE setEach(registrySet(registry, Head(outputs).name, 1), Tail(outputs))

\* the forEach that records the output names of the items that are no targets
RECURSIVE seededRegistry(_, _, _, _)
seededRegistry(registry, working, targetIndexes, index) ==
  IF index > Len(working) THEN registry
  ELSE seededRegistry(
         IF \E k \in 1..Len(targetIndexes) : targetIndexes[k] = index
           THEN registry
           ELSE setEach(registry, working[index].outputs),
         working, targetIndexes, index + 1)

\* working = updateItemAt(working, itemIndex, ...); setItems(working)
updateItemAt(state, itemIndex, item) ==
  [state EXCEPT !.items = [state.run.working EXCEPT ![itemIndex] = item],
                !.run.working = [state.run.working EXCEPT ![itemIndex] = item]]

\* the loop body up to its await: the outputs of the item cleared, its status
\* "procesando", the list set
beginItemAt(state, itemIndex) ==
  [updateItemAt(state, itemIndex,
                [clearOutputs(state.run.working[itemIndex]) EXCEPT
                   !.status = "procesando",
                   !.message = Line("Procesando...", 0)])
     EXCEPT !.run.at = "awaiting"]

beginItem(state) == beginItemAt(state, state.run.targetIndexes[state.run.progressIndex + 1])

\* the item as the try leaves it
itemDone(current, processed) ==
  [current EXCEPT
     !.outputs = processed.outputs,
     !.sourceWidth = processed.sourceWidth,
     !.sourceHeight = processed.sourceHeight,
     !.status = "ok",
     !.message = IF Len(processed.outputs) = 1
                   THEN Line("1 salida generada.", 1)
                   ELSE Line("{n} salidas generadas.", Len(processed.outputs))]

\* the item as the catch leaves it
itemFailed(current, processed) ==
  [clearOutputs(current) EXCEPT
     !.status = "error",
     !.message = Line(messageOf(processed), 0)]

\* progressIndex += 1; setProgress(...), up to the await of the timer
progressed(state, registry) ==
  [state EXCEPT
     !.run.registry = registry,
     !.run.at = "timer",
     !.app.progress = [done |-> state.run.progressIndex + 1,
                       total |-> Len(state.run.targetIndexes)]]

settledUncaught(state, itemIndex, processed) ==
  IF processed.kind = "throw" THEN [state EXCEPT !.run = NoCall]
  ELSE progressed(updateItemAt(state, itemIndex,
                               itemDone(state.run.working[itemIndex], processed)),
                  processed.registry)

settled(state, itemIndex, processed) ==
  IF processed.kind = "throw"
    THEN progressed(updateItemAt(state, itemIndex,
                                 itemFailed(state.run.working[itemIndex], processed)),
                    state.run.registry)
    ELSE progressed(updateItemAt(state, itemIndex,
                                 itemDone(state.run.working[itemIndex], processed)),
                    processed.registry)

settleItemAt(state, itemIndex) ==
  settled(state, itemIndex,
          processItemOutputs(state.run.working[itemIndex].file, state.run.registry,
                             state.app))

\* no try around the await: what processItemOutputs rejects with rejects
\* runProcessing
settleItemUncaught(state) ==
  settledUncaught(state, state.run.targetIndexes[state.run.progressIndex + 1],
          processItemOutputs(
            state.run.working[state.run.targetIndexes[state.run.progressIndex + 1]].file,
            state.run.registry, state.app))

\* the await of processItemOutputs settled: try and catch, the progress and
\* the list set, up to the await of the timer
settleItem(state) ==
  settleItemAt(state, state.run.targetIndexes[state.run.progressIndex + 1])

\* the timer fired: the next turn of the loop up to its await, or the end of
\* runProcessing and, when importCardImages awaited it, the finally of that
resumeRun(state) ==
  IF state.run.progressIndex + 1 < Len(state.run.targetIndexes)
    THEN beginItem([state EXCEPT !.run.progressIndex = @ + 1])
    ELSE [state EXCEPT
            !.app.processing = FALSE,
            !.app.importingAttachments =
              IF state.run.awaitedBy = "importCardImages" THEN FALSE ELSE @,
            !.run = NoCall]

\* runProcessing past its three returns, up to its first await
startedRun(state, base, targetIndexes, awaitedBy) ==
  beginItem(
    [state EXCEPT
       !.items = base,
       !.app.processing = TRUE,
       !.app.progress = [done |-> 0, total |-> Len(targetIndexes)],
       !.run = [kind |-> "call",
                working |-> base,
                targetIndexes |-> targetIndexes,
                progressIndex |-> 0,
                registry |->
                  IF state.app.overwriteDuplicates THEN <<>>
                  ELSE seededRegistry(<<>>, base, targetIndexes, 1),
                at |-> "awaiting",
                awaitedBy |-> awaitedBy]])

runProcessingOf(state, base, targetIndexes, awaitedBy) ==
  IF base = <<>> THEN state
  ELSE IF targetIndexes = <<>> THEN state
  ELSE startedRun(state, base, targetIndexes, awaitedBy)

runProcessingOn(state, base, targetIds, awaitedBy) ==
  runProcessingOf(state, base, targetIndexesOf(base, targetIds, 1), awaitedBy)

\* the return on processing left out
runProcessingUnguarded(state, targetIds, explicitBaseItems, awaitedBy) ==
  runProcessingOn(state,
                  IF explicitBaseItems = Absent THEN state.items
                  ELSE explicitBaseItems.value,
                  targetIds, awaitedBy)

\* runProcessing(targetIds, explicitBaseItems) up to its first await, or to
\* one of its three returns; awaitedBy is the caller that awaits it
runProcessing(state, targetIds, explicitBaseItems, awaitedBy) ==
  IF state.app.processing THEN state
  ELSE runProcessingOn(state,
                       IF explicitBaseItems = Absent THEN state.items
                       ELSE explicitBaseItems.value,
                       targetIds, awaitedBy)

handleClear(state) ==
  IF state.app.processing \/ state.app.importingAttachments THEN state
  ELSE [state EXCEPT
          !.items = <<>>,
          !.app.progress = [done |-> 0, total |-> 0]]

\* the finally of importCardImages, reached at once unless the run is awaited
importedRan(appended, ran) ==
  IF ran.run # NoCall /\ ran.run.awaitedBy = "importCardImages"
       /\ ~appended.app.processing
    THEN ran
    ELSE [ran EXCEPT !.app.importingAttachments = FALSE]

importedAppended(appended, addedItems, autoResizeTrelloImport) ==
  IF autoResizeTrelloImport /\ addedItems # <<>>
    THEN importedRan(appended,
                     runProcessing(appended,
                                   Given({ addedItems[i].id : i \in 1..Len(addedItems) }),
                                   Given(appended.returned.mergedItems),
                                   "importCardImages"))
    ELSE [appended EXCEPT !.app.importingAttachments = FALSE]

importedWith(appended, autoResizeTrelloImport) ==
  importedAppended(appended, appended.returned.addedItems, autoResizeTrelloImport)

\* importCardImages from appendFiles(files) on, files not empty: the run of
\* the added items when autoResizeTrelloImport is set, and the finally
\* unless that run is awaited
importedFiles(state, files, uuid, autoResizeTrelloImport) ==
  importedWith(appendFiles(state, files, uuid), autoResizeTrelloImport)

(************************** App.jsx: inputs explored ************************)
MaxItems == 3   \* longest list of items

File(name, lastModified, size, body) ==
  [name |-> name, lastModified |-> lastModified, size |-> size, body |-> body]

Bitmap == [kind |-> "bitmap", width |-> 2, height |-> 1]
Garbage == [kind |-> "garbage"]

\* pictures that decode, all of one name, lastModified telling them apart
Pictures == { File(<<"a", ".", "p", "n", "g">>, t, 1, Bitmap) : t \in 1..MaxItems }

Document(width, height, canvas, imageData, children) ==
  [width |-> width, height |-> height, canvas |-> canvas, imageData |-> imageData,
   children |-> children]

CompositeView == Canvas(2, 1, <<>>)
NamedLeaf == Layer(Given(<<"x">>), Absent, RasterContent)

\* a document with its composite and two layers of one name, one without a
\* composite, one without a width, one with image data for composite and no
\* layers
Documents ==
  { Document(2, 1, Given(CompositeView), Absent, Given(<<NamedLeaf, NamedLeaf>>)),
    Document(2, 1, Absent, Absent, Given(<<NamedLeaf>>)),
    Document(0, 1, Given(CompositeView), Absent, Given(<<NamedLeaf>>)),
    Document(2, 1, Absent, Given([width |-> 2, height |-> 1, data |-> <<>>]), Absent) }

PsdName == <<"c", ".", "p", "s", "d">>

TextFile == File(<<"n", ".", "t", "x", "t">>, 1, 1, Bitmap)

\* the other files: a picture that does not decode, a text file, and PSD
\* files that decode
Others ==
  { File(<<"b", ".", "J", "P", "G">>, 1, 1, Garbage),
    TextFile }
    \cup { File(PsdName, 1, 1, [kind |-> "psd", psd |-> d]) : d \in Documents }

\* what a picker or an import hands to appendFiles: nothing, one file, a
\* picture twice, a picture and the next, or the text file and a picture
IncomingLists ==
  { <<>> } \cup { <<f>> : f \in Pictures \cup Others }
    \cup UNION { { <<f, g>> : g \in { p \in Pictures :
                                          p.lastModified - f.lastModified \in {0, 1} } }
                  : f \in Pictures }
    \cup { <<TextFile, g>> : g \in Pictures }

\* lists explored: up to MaxItems items, one of them at most not a picture,
\* the pictures in the order of lastModified and none left out
Explored(list) ==
  /\ Len(list) <= MaxItems
  /\ Cardinality({ i \in 1..Len(list) : list[i].file \notin Pictures }) <= 1
  /\ \A i \in 1..Len(list) :
       list[i].file \in Pictures =>
         list[i].file.lastModified
           = Cardinality({ j \in 1..i : list[j].file \in Pictures })

(***************************** App.jsx: actions *****************************)
StateNow == [items |-> items, app |-> app, run |-> run, returned |-> NoCall]

Becomes(state) == items' = state.items /\ app' = state.app /\ run' = state.run

\* crypto.randomUUID(): a value no item carries
UuidsOf(list) == { list[i].id.uuid : i \in 1..Len(list) }
UuidsHeld == UuidsOf(items) \cup (IF run = NoCall THEN {} ELSE UuidsOf(run.working))
FreshUuid == 1 + (IF UuidsHeld = {} THEN 0
                  ELSE CHOOSE u \in UuidsHeld : \A v \in UuidsHeld : v <= u)

\* the change handler of the file input and of the folder input, which the
\* two buttons open that are disabled while processing or importing
AppendFiles ==
  /\ ~(app.processing \/ app.importingAttachments)
  /\ \E incoming \in IncomingLists :
     \E after \in {appendFiles(StateNow, incoming, FreshUuid)} :
       /\ Explored(after.items)
       /\ Becomes(after)
  /\ UNCHANGED <<placementVars, renderVars, removeVars, detectVars, extractVars,
                 trelloVars>>

\* the Procesar button: runProcessing().  The button is disabled while
\* processing or importing; the call is explored while processing all the
\* same, where only the return on processing stands in its way, and not
\* during an import, whose own call of runProcessing reads the processing of
\* the render the import started in
CallRunProcessing ==
  /\ ~app.importingAttachments
  /\ \E after \in {runProcessing(StateNow, Absent, Absent, "onClick")} :
       Becomes(after)
  /\ UNCHANGED <<placementVars, renderVars, removeVars, detectVars, extractVars,
                 trelloVars>>

\* await processItemOutputs(current.file, registry) settles
RunSettle ==
  /\ run # NoCall
  /\ run.at = "awaiting"
  /\ \E after \in {settleItem(StateNow)} : Becomes(after)
  /\ UNCHANGED <<placementVars, renderVars, removeVars, detectVars, extractVars,
                 trelloVars>>

\* the timer fires and the loop goes on
RunNext ==
  /\ run # NoCall
  /\ run.at = "timer"
  /\ run.progressIndex + 1 < Len(run.targetIndexes)
  /\ \E after \in {resumeRun(StateNow)} : Becomes(after)
  /\ UNCHANGED <<placementVars, renderVars, removeVars, detectVars, extractVars,
                 trelloVars>>

\* the timer fires and the loop is over
RunEnd ==
  /\ run # NoCall
  /\ run.at = "timer"
  /\ run.progressIndex + 1 >= Len(run.targetIndexes)
  /\ \E after \in {resumeRun(StateNow)} : Becomes(after)
  /\ UNCHANGED <<placementVars, renderVars, removeVars, detectVars, extractVars,
                 trelloVars>>

\* the Limpiar button, its call explored while it is disabled too
HandleClear ==
  /\ \E after \in {handleClear(StateNow)} : Becomes(after)
  /\ UNCHANGED <<placementVars, renderVars, removeVars, detectVars, extractVars,
                 trelloVars>>

\* the two checkboxes, disabled while processing or importing
SetOverwriteDuplicates ==
  /\ ~(app.processing \/ app.importingAttachments)
  /\ app' = [app EXCEPT !.overwriteDuplicates = ~@]
  /\ UNCHANGED <<items, run>>
  /\ UNCHANGED <<placementVars, renderVars, removeVars, detectVars, extractVars,
                 trelloVars>>

SetExtractPsdLayers ==
  /\ ~(app.processing \/ app.importingAttachments)
  /\ app' = [app EXCEPT !.extractPsdLayers = ~@]
  /\ UNCHANGED <<items, run>>
  /\ UNCHANGED <<placementVars, renderVars, removeVars, detectVars, extractVars,
                 trelloVars>>

\* importCardImages, cards selected, up to its first await; its button is
\* disabled while processing or importing
CallImportCardImages ==
  /\ ~(app.processing \/ app.importingAttachments)
  /\ app' = [app EXCEPT !.importingAttachments = TRUE]
  /\ UNCHANGED <<items, run>>
  /\ UNCHANGED <<placementVars, renderVars, removeVars, detectVars, extractVars,
                 trelloVars>>

ImportFetching ==
  /\ app.importingAttachments
  /\ ~(run # NoCall /\ run.awaitedBy = "importCardImages")

\* a fetch fails, or no attachment is an image: catch and finally
ImportFails ==
  /\ ImportFetching
  /\ app' = [app EXCEPT !.importingAttachments = FALSE]
  /\ UNCHANGED <<items, run>>
  /\ UNCHANGED <<placementVars, renderVars, removeVars, detectVars, extractVars,
                 trelloVars>>

\* the attachments are fetched: appendFiles(files) and, autoResizeTrelloImport
\* set, runProcessing of the added items
ImportAppends ==
  /\ ImportFetching
  /\ \E files \in IncomingLists \ {<<>>}, autoResizeTrelloImport \in BOOLEAN :
     \E after \in {importedFiles(StateNow, files, FreshUuid, autoResizeTrelloImport)} :
       /\ Explored(after.items)
       /\ Becomes(after)
  /\ UNCHANGED <<placementVars, renderVars, removeVars, detectVars, extractVars,
                 trelloVars>>

NextApp ==
  \/ AppendFiles
  \/ CallRunProcessing
  \/ RunSettle
  \/ RunNext
  \/ RunEnd
  \/ HandleClear
  \/ SetOverwriteDuplicates
  \/ SetExtractPsdLayers
  \/ CallImportCardImages
  \/ ImportFails
  \/ ImportAppends

SpecApp == Init /\ [][NextApp]_vars


(************************ properties of runProcessing ***********************)
\* what the try or the catch of runProcessing leaves of an item: "ok" with
\* an output when processItemOutputs resolves, "error" with no output and the
\* message of the error when it rejects
SettledAsProcessed(item, processed) ==
  IF processed.kind = "throw"
    THEN /\ item.status = "error"
         /\ item.outputs = <<>>
         /\ item.message = Line(messageOf(processed), 0)
    ELSE /\ item.status = "ok"
         /\ Len(item.outputs) >= 1

SettledItem(item) == SettledAsProcessed(item, processItemOutputs(item.file, <<>>, app))

NoneProcessing(list) == \A i \in 1..Len(list) : list[i].status # "procesando"

\* during a run the targets are taken in list order: those before the index
\* of the loop are over, the one at it is being processed or settled, and no
\* other item is being processed
TakenInListOrder ==
  run # NoCall =>
    /\ \A k \in 1..(Len(run.targetIndexes) - 1) :
         run.targetIndexes[k] < run.targetIndexes[k + 1]
    /\ run.progressIndex < Len(run.targetIndexes)
    /\ \A k \in 1..run.progressIndex :
         run.working[run.targetIndexes[k]].status \in {"ok", "error"}
    /\ IF run.at = "awaiting"
         THEN run.working[run.targetIndexes[run.progressIndex + 1]].status = "procesando"
         ELSE SettledItem(run.working[run.targetIndexes[run.progressIndex + 1]])
    /\ \A i \in 1..Len(run.working) :
         i # run.targetIndexes[run.progressIndex + 1]
           => run.working[i].status # "procesando"
    /\ app.processing

\* no run under way: nothing is being processed and the flag is cleared
NothingLeftProcessing == run = NoCall => NoneProcessing(items) /\ ~app.processing

\* the step that ends a run: every target settled, the progress complete
EndsSettled ==
  RunEnd =>
    /\ \A k \in 1..Len(run.targetIndexes) : SettledItem(items'[run.targetIndexes[k]])
    /\ NoneProcessing(items')
    /\ app'.progress.done = app'.progress.total
    /\ app'.progress.total = Len(run.targetIndexes)
    /\ ~app'.processing

\* the Procesar button, no run under way: every item is a target
StartsOnEveryItem ==
  (~app.processing /\ items # <<>> /\ CallRunProcessing) =>
    run'.targetIndexes = [k \in 1..Len(items) |-> k]

\* C23: a failure while processing one item does not abort the batch:
\* runProcessing takes every target in list order, and when it finishes every
\* target is "ok" with at least one output or "error" with no output and the
\* message of the error, no item is left "procesando", progress.done equals
\* progress.total and the processing flag is cleared, whichever items failed.
C23_BatchSurvivesFailures ==
  /\ [](TakenInListOrder /\ NothingLeftProcessing)
  /\ [][EndsSettled /\ StartsOnEveryItem]_vars

\* a run of two items or more is over, an item that failed before one that
\* did not
C23_Witness ==
  /\ run = NoCall
  /\ app.progress.total >= 2
  /\ app.progress.done = app.progress.total
  /\ \E i, j \in 1..Len(items) :
       i < j /\ items[i].status = "error" /\ items[j].status = "ok"


(*************** properties of the composite view of a PSD ******************)
\* the decoded document has no width or no height
NoDimensions(psd) == psd.width = 0 \/ psd.height = 0

\* the decoded document carries no canvas and no image data
NoComposite(psd) == psd.canvas = Absent /\ psd.imageData = Absent

\* the targets of the run under way that the loop is done with
DoneTargets ==
  { run.targetIndexes[k] :
      k \in { n \in 1..Len(run.targetIndexes) :
                \/ n <= run.progressIndex
                \/ n = run.progressIndex + 1 /\ run.at = "timer" } }

ShownAsError(index, text) ==
  /\ items[index].status = "error"
  /\ items[index].outputs = <<>>
  /\ items[index].message = Line(text, 0)
  /\ run.working[index] = items[index]

\* C24: processing a PSD through its composite view fails, with no output,
\* when the decoded PSD has no dimensions or carries neither a canvas nor
\* image data; the batch shows the item with status "error" and the message
\* of the error.
C24_PsdWithoutCompositeShownAsError ==
  (run # NoCall /\ ~app.extractPsdLayers) =>
    \A index \in DoneTargets :
      (isPsdFile(run.working[index].file) /\ run.working[index].file.body.kind = "psd") =>
        /\ NoDimensions(run.working[index].file.body.psd) =>
             ShownAsError(index, "PSD invalido: no contiene dimensiones.")
        /\ (~NoDimensions(run.working[index].file.body.psd)
              /\ NoComposite(run.working[index].file.body.psd)) =>
             ShownAsError(index, "No se pudo leer la vista compuesta del PSD. Guarda el PSD con compatibilidad maxima.")

\* a run has just settled a PSD that has dimensions and no composite, taken
\* through its composite view, after an item that has its output
C24_Witness ==
  /\ run # NoCall
  /\ ~app.extractPsdLayers
  /\ run.at = "timer"
  /\ run.progressIndex >= 1
  /\ items[run.targetIndexes[run.progressIndex]].status = "ok"
  /\ isPsdFile(items[run.targetIndexes[run.progressIndex + 1]].file)
  /\ ~NoDimensions(items[run.targetIndexes[run.progressIndex + 1]].file.body.psd)
  /\ NoComposite(items[run.targetIndexes[run.progressIndex + 1]].file.body.psd)
  /\ items[run.targetIndexes[run.progressIndex + 1]].status = "error"


(********************* properties of the output names ***********************)
NamesOf(outputs) == { outputs[i].name : i \in 1..Len(outputs) }

\* the index of the item the loop of the run under way is at
LoopItem == run.targetIndexes[run.progressIndex + 1]

\* the names handed out in the run so far, and the output names of the items
\* that are no targets of it
NamesTaken ==
  UNION { NamesOf(run.working[i].outputs) :
            i \in { j \in 1..Len(run.working) :
                      \/ \A k \in 1..Len(run.targetIndexes) : run.targetIndexes[k] # j
                      \/ \E k \in 1..run.progressIndex : run.targetIndexes[k] = j } }

\* C27: with overwriteDuplicates off, the names nextName returns for an item
\* differ from each other, from every name handed out earlier in the run and
\* from every output name of the items that are no targets of the run, so
\* that no two outputs held by the items share a name.
C27_OutputNamesNeverShared ==
  [][(run # NoCall /\ ~app.overwriteDuplicates /\ RunSettle) =>
       /\ NamesOf(items'[LoopItem].outputs) \cap NamesTaken = {}
       /\ Cardinality(NamesOf(items'[LoopItem].outputs)) = Len(items'[LoopItem].outputs)]_vars


(********************** properties of the guards ****************************)
\* a step that starts a run: the loop at its first target, up to its await
StartsRun ==
  /\ run' # NoCall
  /\ run' # run
  /\ run'.progressIndex = 0
  /\ run'.at = "awaiting"

\* runProcessing called while a run is under way changes nothing
CallWhileProcessingReturns ==
  (app.processing /\ CallRunProcessing) => UNCHANGED <<items, app, run>>

\* handleClear called while a run or an import is under way changes nothing
ClearWhileBusyReturns ==
  ((app.processing \/ app.importingAttachments) /\ HandleClear)
    => UNCHANGED <<items, app, run>>

\* a run starts only when none is under way, and the list is emptied only
\* when neither a run nor an import is
OneRunAtATime ==
  /\ StartsRun => (run = NoCall /\ ~app.processing)
  /\ (items # <<>> /\ items' = <<>>) => ~(app.processing \/ app.importingAttachments)

NoTwoAlike(list) ==
  \A i, j \in 1..Len(list) : i # j => list[i].fingerprint # list[j].fingerprint

AllSupported(list) == \A i \in 1..Len(list) : isSupportedFile(list[i].file)

SameFingerprint(f, g) ==
  f.name = g.name /\ f.lastModified = g.lastModified /\ f.size = g.size

\* the positions of incoming whose file is to be added to list: supported,
\* like no item of list, and like no supported file before it in incoming
PositionsToAdd(list, incoming) ==
  { p \in 1..Len(incoming) :
      /\ isSupportedFile(incoming[p])
      /\ \A i \in 1..Len(list) : ~SameFingerprint(list[i].file, incoming[p])
      /\ \A q \in 1..(p - 1) :
           isSupportedFile(incoming[q]) => ~SameFingerprint(incoming[q], incoming[p]) }

\* the k-th of a set of positions, counted from the smallest
Kth(positions, k) ==
  CHOOSE p \in positions : Cardinality({ q \in positions : q < p }) = k - 1

\* after holds list unchanged, and then the files at positions of incoming,
\* in their order
AppendedAt(list, incoming, after, positions) ==
  /\ Len(after) = Len(list) + Cardinality(positions)
  /\ SubSeq(after, 1, Len(list)) = list
  /\ \A k \in 1..(Len(after) - Len(list)) :
       /\ after[Len(list) + k].file = incoming[Kth(positions, k)]
       /\ after[Len(list) + k].status = "pendiente"
  /\ NoTwoAlike(after)
  /\ AllSupported(after)

AppendedInOrder(list, incoming, after) ==
  AppendedAt(list, incoming, after, PositionsToAdd(list, incoming))

\* C30: after any sequence of appendFiles calls and clears the list holds no
\* two items of one fingerprint and no item whose file has an unsupported
\* extension; appendFiles, on whatever files and whenever a picker or an
\* import can call it, leaves the existing items as they are and where they
\* are, and appends the new items in the order of the incoming files.
C30_AppendKeepsListSound ==
  /\ NoTwoAlike(items)
  /\ AllSupported(items)
  /\ \A i \in 1..Len(items) : items[i].fingerprint = fingerprintOf(items[i].file)
  /\ ~app.processing =>
       \A incoming \in IncomingLists :
         AppendedInOrder(items, incoming,
                         appendFiles(StateNow, incoming, FreshUuid).items)

\* the list holds two items, and of two incoming files appendFiles would add
\* one and leave the other out
C30_Witness ==
  /\ Len(items) >= 2
  /\ \E incoming \in IncomingLists :
       /\ Len(incoming) = 2
       /\ Len(appendFiles(StateNow, incoming, FreshUuid).items) = Len(items) + 1


(************************ Trello: fetchAttachmentBinary ********************)
\* Texts are sequences of characters, as the file names are.
BASE_URL ==
  <<"h", "t", "t", "p", "s", ":", "/", "/", "a", "p", "i", ".", "t", "r",
    "e", "l", "l", "o", ".", "c", "o", "m", "/", "1">>

\* s.includes(part), part not empty
includes(s, part) ==
  \E i \in 1..(Len(s) - Len(part) + 1) : SubSeq(s, i, i + Len(part) - 1) = part

startsWith(s, part) == Len(s) >= Len(part) /\ SubSeq(s, 1, Len(part)) = part

endsWith(s, part) ==
  Len(s) >= Len(part) /\ SubSeq(s, Len(s) - Len(part) + 1, Len(s)) = part

\* the characters encodeURIComponent leaves as they are, beside the letters
Unreserved ==
  {"0", "1", "2", "3", "4", "5", "6", "7", "8", "9", "-", "_", ".", "!", "~", "*",
   "'", "(", ")"}

IsLetter(c) == \E i \in 1..Len(LowerCase) : LowerCase[i] = c \/ UpperCase[i] = c

\* the escapes of the other characters of the texts explored
PercentEncoded(c) ==
  CASE c = "/" -> <<"%", "2", "F">>
    [] c = "?" -> <<"%", "3", "F">>
    [] c = "&" -> <<"%", "2", "6">>
    [] c = "=" -> <<"%", "3", "D">>
    [] c = ":" -> <<"%", "3", "A">>
    [] c = " " -> <<"%", "2", "0">>
    [] c = "#" -> <<"%", "2", "3">>
    [] c = "@" -> <<"%", "4", "0">>
    [] c = "+" -> <<"%", "2", "B">>

RECURSIVE encodeURIComponent(_)
encodeURIComponent(s) ==
  IF s = <<>> THEN <<>>
  ELSE (IF IsLetter(Head(s)) \/ Head(s) \in Unreserved THEN <<Head(s)>>
        ELSE PercentEncoded(Head(s)))
       \o encodeURIComponent(Tail(s))

KeyParam == <<"k", "e", "y", "=">>
TokenParam == <<"&", "t", "o", "k", "e", "n", "=">>

\* the separator, then key=...&token=...
authQuery(url, key, token) ==
  (IF includes(url, <<"?">>) THEN <<"&">> ELSE <<"?">>)
    \o KeyParam \o encodeURIComponent(key) \o TokenParam \o encodeURIComponent(token)

withAuth(path, key, token) == BASE_URL \o path \o authQuery(path, key, token)

withAuthAbsolute(url, key, token) == url \o authQuery(url, key, token)

OAuthConsumerKey ==
  <<"O", "A", "u", "t", "h", " ", "o", "a", "u", "t", "h", "_", "c", "o",
    "n", "s", "u", "m", "e", "r", "_", "k", "e", "y", "=", "\"">>
OAuthToken ==
  <<"\"", ",", " ", "o", "a", "u", "t", "h", "_", "t", "o", "k", "e", "n",
    "=", "\"">>

trelloDownloadOAuthHeader(key, token) ==
  OAuthConsumerKey \o key \o OAuthToken \o token \o <<"\"">>

ImagePrefix == <<"i", "m", "a", "g", "e", "/">>

\* png|jpe?g|webp|tiff?|psd after the dot
ImageSuffixes ==
  { <<".", "p", "n", "g">>, <<".", "j", "p", "g">>, <<".", "j", "p", "e", "g">>,
    <<".", "w", "e", "b", "p">>, <<".", "t", "i", "f">>, <<".", "t", "i", "f", "f">>,
    <<".", "p", "s", "d">> }

\* /\.(png|jpe?g|webp|tiff?|psd)$/i.test(name)
endsAsImage(name) == \E suffix \in ImageSuffixes : endsWith(toLowerCase(name), suffix)

\* /\.(png|jpe?g|webp|tiff?|psd)(\?|$)/i.test(url)
namesImage(url) ==
  \E suffix \in ImageSuffixes :
    \/ endsWith(toLowerCase(url), suffix)
    \/ includes(toLowerCase(url), suffix \o <<"?">>)

\* an attachment is [mimeType, name, url], a text that is missing empty
isImageAttachment(attachment) ==
  \/ startsWith(attachment.mimeType, ImagePrefix)
  \/ endsAsImage(attachment.name)
  \/ namesImage(attachment.url)

HostedOnTrello ==
  <<"h", "t", "t", "p", "s", ":", "/", "/", "t", "r", "e", "l", "l", "o",
    ".", "c", "o", "m", "/", "1", "/", "c", "a", "r", "d", "s", "/">>
HostedOnApi ==
  <<"h", "t", "t", "p", "s", ":", "/", "/", "a", "p", "i", ".", "t", "r",
    "e", "l", "l", "o", ".", "c", "o", "m", "/", "1", "/", "c", "a", "r",
    "d", "s", "/">>
TrelloV1 ==
  <<"h", "t", "t", "p", "s", ":", "/", "/", "t", "r", "e", "l", "l", "o",
    ".", "c", "o", "m", "/", "1", "/">>
ApiV1 ==
  <<"h", "t", "t", "p", "s", ":", "/", "/", "a", "p", "i", ".", "t", "r",
    "e", "l", "l", "o", ".", "c", "o", "m", "/", "1", "/">>

\* /https:\/\/(trello\.com|api\.trello\.com)\/1\/cards\//i.test(rawUrl)
isTrelloHosted(rawUrl) ==
  \/ includes(toLowerCase(rawUrl), HostedOnTrello)
  \/ includes(toLowerCase(rawUrl), HostedOnApi)

\* rawUrl.replace(/^https:\/\/trello\.com\/1\//i, "https://api.trello.com/1/")
apiDownloadUrlOf(rawUrl) ==
  IF startsWith(toLowerCase(rawUrl), TrelloV1)
    THEN ApiV1 \o SubSeq(rawUrl, Len(TrelloV1) + 1, Len(rawUrl))
    ELSE rawUrl


CardsPath == <<"/", "c", "a", "r", "d", "s", "/">>
AttachmentsPath ==
  <<"/", "a", "t", "t", "a", "c", "h", "m", "e", "n", "t", "s", "/">>
MetadataFields ==
  <<"?", "f", "i", "e", "l", "d", "s", "=", "i", "d", ",", "n", "a", "m",
    "e", ",", "m", "i", "m", "e", "T", "y", "p", "e", ",", "u", "r", "l",
    ",", "f", "i", "l", "e", "N", "a", "m", "e">>

\* a request is the url fetched and the Authorization header, if any; a
\* response is [ok, status, text], the bodies explored no JSON
Request(url, authorization) == [url |-> url, authorization |-> authorization]

Responses ==
  { [ok |-> TRUE, status |-> 200, text |-> ""],
    [ok |-> FALSE, status |-> 401, text |-> "invalid token"],
    [ok |-> FALSE, status |-> 404, text |-> ""] }

\* payload.json?.message || payload.text || fallback
errorOf(response, fallback) == IF response.text # "" THEN response.text ELSE fallback

Failed(status, error) == [ok |-> FALSE, status |-> status, error |-> error]

\* the file name, the content type and the data returned are left out
Downloaded == [ok |-> TRUE, status |-> 200, error |-> ""]

NoAttachment == [mimeType |-> <<>>, name |-> <<>>, url |-> <<>>]

\* the locals of the call: stage is the await it is at
TrelloCall(stage, cardId, attachmentId, key, token, attachment) ==
  [kind |-> "call", stage |-> stage, cardId |-> cardId, attachmentId |-> attachmentId,
   key |-> key, token |-> token, attachment |-> attachment]

metadataUrlOf(cardId, attachmentId, key, token) ==
  withAuth(CardsPath \o encodeURIComponent(cardId) \o AttachmentsPath
             \o encodeURIComponent(attachmentId) \o MetadataFields,
           key, token)

(********************** Trello: inputs explored ****************************)
CardIds == { <<>>, <<"c">>, <<"c", "/", "d">> }
AttachmentIds == { <<>>, <<"t">> }

\* TRELLO_API_KEY and TRELLO_TOKEN, empty when not set
Keys == { <<>>, <<"K">> }
Tokens == { <<>>, <<"T">> }

\* what attachment.url may be: an upload on trello.com or api.trello.com, the
\* first in capitals too, and links to other hosts, two of them with the
\* address of a Trello upload in their query or path, two of them with
\* trello.com in the name or the user of their host
UploadUrl ==
  <<"h", "t", "t", "p", "s", ":", "/", "/", "t", "r", "e", "l", "l", "o",
    ".", "c", "o", "m", "/", "1", "/", "c", "a", "r", "d", "s", "/", "c",
    "/", "a", "t", "t", "a", "c", "h", "m", "e", "n", "t", "s", "/", "t",
    "/", "d", "o", "w", "n", "l", "o", "a", "d", "/", "x", ".", "p", "n",
    "g">>
UploadUrlCapitals ==
  <<"H", "T", "T", "P", "S", ":", "/", "/", "T", "r", "e", "l", "l", "o",
    ".", "c", "o", "m", "/", "1", "/", "c", "a", "r", "d", "s", "/", "c",
    "/", "a", "t", "t", "a", "c", "h", "m", "e", "n", "t", "s", "/", "t",
    "/", "d", "o", "w", "n", "l", "o", "a", "d", "/", "x", ".", "p", "n",
    "g">>
ApiUploadUrl ==
  <<"h", "t", "t", "p", "s", ":", "/", "/", "a", "p", "i", ".", "t", "r",
    "e", "l", "l", "o", ".", "c", "o", "m", "/", "1", "/", "c", "a", "r",
    "d", "s", "/", "c", "/", "a", "t", "t", "a", "c", "h", "m", "e", "n",
    "t", "s", "/", "t", "/", "d", "o", "w", "n", "l", "o", "a", "d", "/",
    "x", ".", "p", "n", "g">>
LinkUrl ==
  <<"h", "t", "t", "p", "s", ":", "/", "/", "i", "m", "g", ".", "e", "x",
    "a", "m", "p", "l", "e", "/", "x", ".", "p", "n", "g">>
LinkUrlQuery ==
  <<"h", "t", "t", "p", "s", ":", "/", "/", "i", "m", "g", ".", "e", "x",
    "a", "m", "p", "l", "e", "/", "x", ".", "p", "n", "g", "?", "s", "i",
    "z", "e", "=", "2">>
LinkWithUploadInQuery ==
  <<"h", "t", "t", "p", "s", ":", "/", "/", "i", "m", "g", ".", "e", "x",
    "a", "m", "p", "l", "e", "/", "?", "u", "=", "h", "t", "t", "p", "s",
    ":", "/", "/", "t", "r", "e", "l", "l", "o", ".", "c", "o", "m", "/",
    "1", "/", "c", "a", "r", "d", "s", "/", "x", ".", "p", "n", "g">>
LinkWithUploadInPath ==
  <<"h", "t", "t", "p", "s", ":", "/", "/", "i", "m", "g", ".", "e", "x",
    "a", "m", "p", "l", "e", "/", "h", "t", "t", "p", "s", ":", "/", "/",
    "a", "p", "i", ".", "t", "r", "e", "l", "l", "o", ".", "c", "o", "m",
    "/", "1", "/", "c", "a", "r", "d", "s", "/", "x", ".", "p", "n", "g">>
LinkHostNamedTrello ==
  <<"h", "t", "t", "p", "s", ":", "/", "/", "t", "r", "e", "l", "l", "o",
    ".", "c", "o", "m", ".", "i", "m", "g", ".", "e", "x", "a", "m", "p",
    "l", "e", "/", "1", "/", "c", "a", "r", "d", "s", "/", "x", ".", "p",
    "n", "g">>
LinkUserNamedTrello ==
  <<"h", "t", "t", "p", "s", ":", "/", "/", "t", "r", "e", "l", "l", "o",
    ".", "c", "o", "m", "@", "i", "m", "g", ".", "e", "x", "a", "m", "p",
    "l", "e", "/", "1", "/", "c", "a", "r", "d", "s", "/", "x", ".", "p",
    "n", "g">>
LinkToPage ==
  <<"h", "t", "t", "p", "s", ":", "/", "/", "i", "m", "g", ".", "e", "x",
    "a", "m", "p", "l", "e", "/", "p", "a", "g", "e">>

AttachmentUrls ==
  { UploadUrl, UploadUrlCapitals, ApiUploadUrl,
    LinkUrl, LinkUrlQuery, LinkWithUploadInQuery,
    LinkWithUploadInPath, LinkHostNamedTrello, LinkUserNamedTrello,
    LinkToPage }

ImagePng == <<"i", "m", "a", "g", "e", "/", "p", "n", "g">>
TextHtml == <<"t", "e", "x", "t", "/", "h", "t", "m", "l">>

\* the attachments the metadata may describe: of either type, named with or
\* without an image extension
Attachments ==
  { [mimeType |-> m, name |-> n, url |-> u] :
      m \in {ImagePng, TextHtml},
      n \in { <<"x">>, <<"x", ".", "P", "N", "G">> },
      u \in AttachmentUrls }

(************************* Trello: actions *********************************)
\* fetchAttachmentBinary(cardId, attachmentId) up to its first await, or to one
\* of its first two returns
FetchAttachmentBinary ==
  /\ tcall = NoCall
  /\ \E cardId \in CardIds, attachmentId \in AttachmentIds, key \in Keys, token \in Tokens :
       IF cardId = <<>> \/ attachmentId = <<>>
         THEN /\ tcall' = TrelloCall("returned", cardId, attachmentId, key, token, NoAttachment)
              /\ tsent' = tsent
              /\ tout' = Failed(400, "Faltan cardId y/o attachmentId.")
       ELSE IF key = <<>> \/ token = <<>>
         THEN /\ tcall' = TrelloCall("returned", cardId, attachmentId, key, token, NoAttachment)
              /\ tsent' = tsent
              /\ tout' = Failed(400, "Faltan variables de entorno: TRELLO_API_KEY y/o TRELLO_TOKEN. Configuralas en Vercel.")
       ELSE /\ tcall' = TrelloCall("metadata", cardId, attachmentId, key, token, NoAttachment)
            /\ tsent' = <<Request(metadataUrlOf(cardId, attachmentId, key, token), Absent)>>
            /\ tout' = tout
  /\ UNCHANGED <<placementVars, renderVars, removeVars, detectVars, extractVars, appVars>>

\* the request of the download: to apiDownloadUrl with the OAuth header when
\* the url is taken for hosted on Trello, to rawUrl without header otherwise
downloadRequest(rawUrl, key, token) ==
  IF isTrelloHosted(rawUrl)
    THEN Request(apiDownloadUrlOf(rawUrl), Given(trelloDownloadOAuthHeader(key, token)))
    ELSE Request(rawUrl, Absent)

\* the metadata arrives: the two returns on it, or the fetch of the download
MetadataResponds ==
  /\ tcall # NoCall
  /\ tcall.stage = "metadata"
  /\ \E metadataResponse \in Responses, attachment \in Attachments :
       IF ~metadataResponse.ok
         THEN /\ tcall' = [tcall EXCEPT !.stage = "returned"]
              /\ tsent' = tsent
              /\ tout' = Failed(metadataResponse.status,
                                errorOf(metadataResponse, "No se pudo leer el adjunto."))
       ELSE IF ~isImageAttachment(attachment)
         THEN /\ tcall' = [tcall EXCEPT !.stage = "returned", !.attachment = attachment]
              /\ tsent' = tsent
              /\ tout' = Failed(400, "El adjunto no es una imagen soportada.")
       ELSE /\ tcall' = [tcall EXCEPT
                           !.stage = IF isTrelloHosted(attachment.url)
                                       THEN "download" ELSE "plain",
                           !.attachment = attachment]
            /\ tsent' = Append(tsent, downloadRequest(attachment.url, tcall.key, tcall.token))
            /\ tout' = tout
  /\ UNCHANGED <<placementVars, renderVars, removeVars, detectVars, extractVars, appVars>>

\* the return on fileResponse
returnedOn(fileResponse) ==
  IF fileResponse.ok THEN Downloaded
  ELSE Failed(fileResponse.status,
              errorOf(fileResponse, "No se pudo descargar el adjunto."))

\* the download with the header arrives: the fallback with key and token in
\* the query when it is not ok
DownloadResponds ==
  /\ tcall # NoCall
  /\ tcall.stage = "download"
  /\ \E fileResponse \in Responses :
       IF ~fileResponse.ok
         THEN /\ tcall' = [tcall EXCEPT !.stage = "fallback"]
              /\ tsent' = Append(tsent,
                                 Request(withAuthAbsolute(apiDownloadUrlOf(tcall.attachment.url),
                                                          tcall.key, tcall.token),
                                         Absent))
              /\ tout' = tout
         ELSE /\ tcall' = [tcall EXCEPT !.stage = "returned"]
              /\ tsent' = tsent
              /\ tout' = returnedOn(fileResponse)
  /\ UNCHANGED <<placementVars, renderVars, removeVars, detectVars, extractVars, appVars>>

\* the fallback, or the download of a url not taken for hosted on Trello,
\* arrives
LastResponds ==
  /\ tcall # NoCall
  /\ tcall.stage \in {"fallback", "plain"}
  /\ \E fileResponse \in Responses :
       /\ tcall' = [tcall EXCEPT !.stage = "returned"]
       /\ tsent' = tsent
       /\ tout' = returnedOn(fileResponse)
  /\ UNCHANGED <<placementVars, renderVars, removeVars, detectVars, extractVars, appVars>>

NextTrello ==
  \/ FetchAttachmentBinary
  \/ MetadataResponds
  \/ DownloadResponds
  \/ LastResponds

SpecTrello == Init /\ [][NextTrello]_vars


(******************* properties of fetchAttachmentBinary ********************)
HttpsScheme == <<"h", "t", "t", "p", "s", ":", "/", "/">>
TrelloCom == <<"t", "r", "e", "l", "l", "o", ".", "c", "o", "m">>
ApiTrelloCom ==
  <<"a", "p", "i", ".", "t", "r", "e", "l", "l", "o", ".", "c", "o", "m">>

\* the characters of s before the first that is in stops
RECURSIVE Before(_, _)
Before(s, stops) ==
  IF s = <<>> THEN <<>>
  ELSE IF Head(s) \in stops THEN <<>>
  ELSE <<Head(s)>> \o Before(Tail(s), stops)

\* the characters of s after the last that is mark, all of s without mark
RECURSIVE AfterLast(_, _)
AfterLast(s, mark) ==
  IF \E i \in 1..Len(s) : s[i] = mark THEN AfterLast(Tail(s), mark) ELSE s

\* the host a request to url goes to: what follows https:// up to the path,
\* the query or the fragment, without user and port, in small letters
HostOf(url) ==
  toLowerCase(
    Before(AfterLast(Before(SubSeq(url, Len(HttpsScheme) + 1, Len(url)), {"/", "?", "#"}),
                     "@"),
           {":"}))

ToTrello(url) ==
  /\ startsWith(toLowerCase(url), HttpsScheme)
  /\ HostOf(url) \in {TrelloCom, ApiTrelloCom}

\* the request carries the key or the token in its url
CredentialsInQuery(request) ==
  \/ includes(request.url, KeyParam \o encodeURIComponent(tcall.key))
  \/ includes(request.url, TokenParam \o encodeURIComponent(tcall.token))

CarriesCredentials(request) ==
  request.authorization # Absent \/ CredentialsInQuery(request)

\* C29: fetchAttachmentBinary sends the key and the token, as Authorization
\* header or in the query, only on requests whose host is trello.com or
\* api.trello.com; the download of an attachment whose url points to another
\* host carries no credentials; and the fallback with key and token in the
\* query follows the request with the header to the same url.
C29_CredentialsOnlyToTrello ==
  tcall # NoCall =>
    /\ \A i \in 1..Len(tsent) : CarriesCredentials(tsent[i]) => ToTrello(tsent[i].url)
    /\ (tcall.attachment # NoAttachment /\ ~ToTrello(tcall.attachment.url)) =>
         \A i \in 2..Len(tsent) : ~CarriesCredentials(tsent[i])
    /\ \A i \in 2..Len(tsent) :
         CredentialsInQuery(tsent[i]) =>
           /\ i = 3
           /\ tsent[2].authorization # Absent
           /\ tsent[3].url = withAuthAbsolute(tsent[2].url, tcall.key, tcall.token)

=============================================================================
